---- MODULE Spec2Model ----
(***************************************************************************)
(* Incident enrichment pipeline (snow_analytics.core.transform) and the    *)
(* metrics aggregators (snow_analytics.analysis) as a state machine over   *)
(* tables.  A table is a sequence of column names with a sequence of rows; *)
(* a row is a sequence of cells aligned with the columns.  Text is a       *)
(* sequence of one-character strings, so that substring containment,       *)
(* lower-casing and length are computed as the code computes them.         *)
(* Instants are seconds since 2024-01-01 00:00:00 (a Monday).              *)
(***************************************************************************)
EXTENDS Integers, Sequences, FiniteSets, TLC

VARIABLES df, call, ret, now, enriched, runs, config_rules

vars == <<df, call, ret, now, enriched, runs, config_rules>>

----------------------------------------------------------------------------
(* Bounds of the model *)

MaxRows == 2

MaxTicks == 1

MaxRuns == 1

----------------------------------------------------------------------------
(* Text literals *)

\* incident states
ST ==
  [ New |-> <<"N", "e", "w">>,
    InProgress |-> <<"I", "n", " ", "P", "r", "o", "g", "r", "e", "s", "s">>,
    AwaitingUserInfo |-> <<"A", "w", "a", "i", "t", "i", "n", "g", " ", "U", "s", "e", "r", " ", "I", "n", "f", "o">>,
    OnHold |-> <<"O", "n", " ", "H", "o", "l", "d">>,
    Pending |-> <<"P", "e", "n", "d", "i", "n", "g">>,
    Resolved |-> <<"R", "e", "s", "o", "l", "v", "e", "d">>,
    Closed |-> <<"C", "l", "o", "s", "e", "d">>,
    AwaitingVendor |-> <<"A", "w", "a", "i", "t", "i", "n", "g", " ", "V", "e", "n", "d", "o", "r">> ]

\* priorities
PR ==
  [ Critical |-> <<"1", " ", "-", " ", "C", "r", "i", "t", "i", "c", "a", "l">>,
    High |-> <<"2", " ", "-", " ", "H", "i", "g", "h">>,
    Moderate |-> <<"3", " ", "-", " ", "M", "o", "d", "e", "r", "a", "t", "e">>,
    Low |-> <<"4", " ", "-", " ", "L", "o", "w">>,
    P1 |-> <<"P", "1">>,
    Planning |-> <<"5", " ", "-", " ", "P", "l", "a", "n", "n", "i", "n", "g">>,
    CriticalLower |-> <<"1", " ", "-", " ", "c", "r", "i", "t", "i", "c", "a", "l">> ]

\* configuration item types
CI ==
  [ AccessPoint |-> <<"A", "c", "c", "e", "s", "s", " ", "P", "o", "i", "n", "t">>,
    DnsServer |-> <<"D", "N", "S", " ", "S", "e", "r", "v", "e", "r">>,
    Router |-> <<"R", "o", "u", "t", "e", "r">>,
    Printer |-> <<"P", "r", "i", "n", "t", "e", "r">>,
    VpnGateway |-> <<"V", "P", "N", " ", "G", "a", "t", "e", "w", "a", "y">>,
    WirelessController |-> <<"W", "i", "r", "e", "l", "e", "s", "s", " ", "C", "o", "n", "t", "r", "o", "l", "l", "e", "r">> ]

\* keywords of the impact estimate
KW ==
  [ server |-> <<"s", "e", "r", "v", "e", "r">>,
    firewall |-> <<"f", "i", "r", "e", "w", "a", "l", "l">>,
    access_point |-> <<"a", "c", "c", "e", "s", "s", " ", "p", "o", "i", "n", "t">>,
    wifi |-> <<"w", "i", "f", "i">>,
    wireless |-> <<"w", "i", "r", "e", "l", "e", "s", "s">>,
    router |-> <<"r", "o", "u", "t", "e", "r">>,
    switch |-> <<"s", "w", "i", "t", "c", "h">>,
    printer |-> <<"p", "r", "i", "n", "t", "e", "r">> ]

\* categories
CAT ==
  [ WiFi |-> <<"W", "i", "F", "i", "/", "W", "i", "r", "e", "l", "e", "s", "s">>,
    VPN |-> <<"V", "P", "N", "/", "R", "e", "m", "o", "t", "e", " ", "A", "c", "c", "e", "s", "s">>,
    Printing |-> <<"N", "e", "t", "w", "o", "r", "k", " ", "P", "r", "i", "n", "t", "i", "n", "g">>,
    Server |-> <<"S", "e", "r", "v", "e", "r", "/", "P", "e", "r", "f", "o", "r", "m", "a", "n", "c", "e">>,
    DNS |-> <<"D", "N", "S", "/", "R", "e", "s", "o", "l", "u", "t", "i", "o", "n">>,
    Firewall |-> <<"F", "i", "r", "e", "w", "a", "l", "l", "/", "S", "e", "c", "u", "r", "i", "t", "y">>,
    Connectivity |-> <<"C", "o", "n", "n", "e", "c", "t", "i", "v", "i", "t", "y">>,
    Hardware |-> <<"H", "a", "r", "d", "w", "a", "r", "e">>,
    Other |-> <<"O", "t", "h", "e", "r">> ]

\* reassignment severities
SEV ==
  [ Critical |-> <<"C", "r", "i", "t", "i", "c", "a", "l">>,
    High |-> <<"H", "i", "g", "h">>,
    Moderate |-> <<"M", "o", "d", "e", "r", "a", "t", "e">> ]

\* texts of the sample incidents
TXT ==
  [ WifiShort |-> <<"W", "i", "F", "i", " ", "c", "o", "n", "n", "e", "c", "t", "i", "v", "i", "t", "y", " ", "i", "s", "s", "u", "e">>,
    WifiDesc |-> <<"U", "s", "e", "r", "s", " ", "u", "n", "a", "b", "l", "e", " ", "t", "o", " ", "c", "o", "n", "n", "e", "c", "t", " ", "t", "o", " ", "W", "i", "F", "i", " ", "i", "n", " ", "b", "u", "i", "l", "d", "i", "n", "g", " ", "A">>,
    VpnShort |-> <<"V", "P", "N", " ", "c", "o", "n", "n", "e", "c", "t", "i", "o", "n", " ", "p", "r", "o", "b", "l", "e", "m">>,
    VpnDesc |-> <<"R", "e", "m", "o", "t", "e", " ", "u", "s", "e", "r", "s", " ", "c", "a", "n", "n", "o", "t", " ", "e", "s", "t", "a", "b", "l", "i", "s", "h", " ", "V", "P", "N", " ", "c", "o", "n", "n", "e", "c", "t", "i", "o", "n">>,
    DnsShort |-> <<"D", "N", "S", " ", "r", "e", "s", "o", "l", "u", "t", "i", "o", "n", " ", "f", "a", "i", "l", "u", "r", "e">>,
    DnsDesc |-> <<"D", "N", "S", " ", "s", "e", "r", "v", "e", "r", " ", "n", "o", "t", " ", "r", "e", "s", "o", "l", "v", "i", "n", "g", " ", "e", "x", "t", "e", "r", "n", "a", "l", " ", "d", "o", "m", "a", "i", "n", "s">>,
    ApShort |-> <<"W", "i", "F", "i", " ", "a", "c", "c", "e", "s", "s", " ", "p", "o", "i", "n", "t", " ", "d", "o", "w", "n", " ", "i", "n", " ", "b", "u", "i", "l", "d", "i", "n", "g", " ", "A">>,
    ShortBad |-> <<"P", "C", " ", "b", "r", "o", "k", "e", "n">>,
    Laptop |-> <<"L", "a", "p", "t", "o", "p", " ", "i", "s">>,
    AppShort |-> <<"A", "p", "p", "l", "i", "c", "a", "t", "i", "o", "n", " ", "a", "c", "c", "e", "s", "s", " ", "d", "e", "n", "i", "e", "d">>,
    INC001 |-> <<"I", "N", "C", "0", "0", "1">>,
    INC002 |-> <<"I", "N", "C", "0", "0", "2">>,
    INC003 |-> <<"I", "N", "C", "0", "0", "3">>,
    Network |-> <<"G", "l", "o", "b", "a", "l", " ", "N", "e", "t", "w", "o", "r", "k", " ", "S", "e", "r", "v", "i", "c", "e", "s">>,
    RTR |-> <<"R", "O", "U", "T", "E", "R", "_", "0", "0", "1">>,
    AP |-> <<"A", "C", "C", "E", "S", "S", "_", "P", "O", "I", "N", "T", "_", "0", "0", "2">> ]

\* short texts
STR ==
  [ one |-> <<"1">>,
    nan |-> <<"n", "a", "n">>,
    space |-> <<" ">>,
    empty |-> <<>> ]


----------------------------------------------------------------------------
(* Text operations: str.lower(), `in`, str.len() *)

UpperChars == <<"A","B","C","D","E","F","G","H","I","J","K","L","M",
                "N","O","P","Q","R","S","T","U","V","W","X","Y","Z">>

LowerChars == <<"a","b","c","d","e","f","g","h","i","j","k","l","m",
                "n","o","p","q","r","s","t","u","v","w","x","y","z">>

LowerChar(c) ==
  IF \E i \in 1..26 : UpperChars[i] = c
    THEN LowerChars[CHOOSE i \in 1..26 : UpperChars[i] = c]
    ELSE c

Lower(s) == [i \in 1..Len(s) |-> LowerChar(s[i])]

\* Python's `kw in text`
Contains(text, kw) ==
  \E i \in 1..(Len(text) - Len(kw) + 1) :
    \A j \in 1..Len(kw) : text[i + j - 1] = kw[j]

----------------------------------------------------------------------------
(* Cells.  k is the kind of value; n/d is a number (d = 1 for integers,    *)
(* booleans are 0/1, an instant is n seconds); s is the text of a string.  *)

Cell(k, n, d, s) == [k |-> k, n |-> n, d |-> d, s |-> s]

Str(s) == Cell("str", 0, 1, s)

IntCell(n) == Cell("int", n, 1, <<>>)

\* the float n/d
Flt(n, d) == Cell("float", n, d, <<>>)

BoolCell(b) == Cell("bool", IF b THEN 1 ELSE 0, 1, <<>>)

\* numpy.nan
NaN == Cell("nan", 0, 1, <<>>)

\* pandas.NaT
NaT == Cell("nat", 0, 1, <<>>)

\* a parsed timestamp: the instant t
Ts(t) == Cell("dt", t, 1, <<>>)

\* the text '%Y-%m-%d %H:%M:%S' of the instant t, as the test fixture and the
\* sample generator write it
DateText(t) == Cell("datetext", t, 1, <<>>)

\* pandas.isna
IsNa(c) == c.k \in {"nan", "nat"}

IsTrue(c) == c.k = "bool" /\ c.n = 1

\* str(value) as astype(str) and str() give it, for the kinds that reach it
AsStr(c) == IF c.k = "str" THEN c.s ELSE IF c.k = "nan" THEN STR.nan ELSE <<>>

----------------------------------------------------------------------------
(* Tables *)

Table(cols, rows) == [cols |-> cols, rows |-> rows]

\* pandas.DataFrame()
EmptyTable == Table(<<>>, <<>>)

NRows(t) == Len(t.rows)

\* a pipeline without its guard for the empty table
IsEmptyUnchecked(t) == FALSE

\* df.empty
IsEmpty(t) == Len(t.rows) = 0 \/ Len(t.cols) = 0

\* `c in df.columns`
HasCol(t, c) == \E i \in 1..Len(t.cols) : t.cols[i] = c

CountCol(t, c) == Cardinality({i \in 1..Len(t.cols) : t.cols[i] = c})

\* df[c] is a DataFrame, not a Series, when the label c is duplicated
IsDup(t, c) == CountCol(t, c) > 1

\* the position of the column labelled c
ColIdx(t, c) == CHOOSE i \in 1..Len(t.cols) : t.cols[i] = c

\* df.loc[r, c]
Get(t, r, c) == t.rows[r][ColIdx(t, c)]

\* row.get(c, default)
RowGet(t, r, c, default) == IF HasCol(t, c) THEN Get(t, r, c) ELSE default

\* df[c] = f : replaces the column in place, or appends a new last column
SetCol(t, c, f) ==
  IF HasCol(t, c)
    THEN Table(t.cols,
               [r \in 1..NRows(t) |-> [t.rows[r] EXCEPT ![ColIdx(t, c)] = f[r]]])
    ELSE Table(Append(t.cols, c),
               [r \in 1..NRows(t) |-> Append(t.rows[r], f[r])])

\* df.loc[mask, c] = f : rows outside the mask keep their value; a column
\* created by the assignment is NaN outside the mask
SetWhere(t, c, mask, f) ==
  SetCol(t, c, [r \in 1..NRows(t) |->
                  IF mask[r] THEN f[r]
                  ELSE IF HasCol(t, c) THEN Get(t, r, c) ELSE NaN])

\* a datetime64 column: .dt and timestamp arithmetic work on it
IsDatetimeCol(t, c) ==
  \A r \in 1..NRows(t) : Get(t, r, c).k \in {"dt", "nat"}

\* df[rows] : the rows keep their relative order
RECURSIVE SelectSeq2(_, _, _)
SelectSeq2(rows, keep, i) ==
  IF i > Len(rows) THEN <<>>
  ELSE IF keep[i] THEN <<rows[i]>> \o SelectSeq2(rows, keep, i + 1)
  ELSE SelectSeq2(rows, keep, i + 1)

Filter(t, keep) == Table(t.cols, SelectSeq2(t.rows, keep, 1))

\* the outcome of a call on a table: err is "" or the exception raised, t is
\* the table the call returned (or had reached when it raised), obj tells
\* whether t is the caller's own object ("caller") or a new one ("fresh")
Outcome(err, obj, t) == [err |-> err, obj |-> obj, t |-> t]

Then(o, F(_)) == IF o.err # "" THEN o ELSE F(o)

----------------------------------------------------------------------------
(* Configuration defaults *)

\* sla_rules.get(priority, 72)
DefaultSlaHours == 72

\* config.get('sla.rules') of the default configuration, in hours
ConfigSlaRules ==
  << [priority |-> PR.Critical, hours |-> 4],
     [priority |-> PR.High,     hours |-> 24],
     [priority |-> PR.Moderate, hours |-> 72],
     [priority |-> PR.Low,      hours |-> 120] >>

\* the rules calculate_sla_breach uses when it is given none
BuiltinSlaRules ==
  << [priority |-> PR.Critical, hours |-> 4],
     [priority |-> PR.High,     hours |-> 24],
     [priority |-> PR.Moderate, hours |-> 72],
     [priority |-> PR.Low,      hours |-> 120] >>

\* the rules of the test fixture, which have no '4 - Low' key
TestSlaRules ==
  << [priority |-> PR.Critical, hours |-> 1],
     [priority |-> PR.High,     hours |-> 24],
     [priority |-> PR.Moderate, hours |-> 72] >>

BuiltinCategorizationRules ==
  <<
    [category |-> CAT.WiFi,
     keywords |-> << <<"w", "i", "f", "i">>,
                  <<"w", "i", "r", "e", "l", "e", "s", "s">>,
                  <<"a", "c", "c", "e", "s", "s", " ", "p", "o", "i", "n", "t">>,
                  <<"w", "a", "p">>,
                  <<"s", "s", "i", "d">> >>],
    [category |-> CAT.VPN,
     keywords |-> << <<"v", "p", "n">>,
                  <<"r", "e", "m", "o", "t", "e">>,
                  <<"z", "s", "c", "a", "l", "e", "r">>,
                  <<"r", "e", "m", "o", "t", "e", " ", "a", "c", "c", "e", "s", "s">>,
                  <<"r", "e", "m", "o", "t", "e", " ", "d", "e", "s", "k", "t", "o", "p">> >>],
    [category |-> CAT.Printing,
     keywords |-> << <<"p", "r", "i", "n", "t", "e", "r">>,
                  <<"p", "r", "i", "n", "t">>,
                  <<"p", "r", "i", "n", "t", "i", "n", "g">>,
                  <<"p", "r", "i", "n", "t", " ", "q", "u", "e", "u", "e">> >>],
    [category |-> CAT.Server,
     keywords |-> << <<"s", "e", "r", "v", "e", "r">>,
                  <<"p", "e", "r", "f", "o", "r", "m", "a", "n", "c", "e">>,
                  <<"s", "l", "o", "w">>,
                  <<"c", "l", "e", "a", "r", "c", "a", "s", "e">>,
                  <<"a", "p", "p", "l", "i", "c", "a", "t", "i", "o", "n">> >>],
    [category |-> CAT.DNS,
     keywords |-> << <<"d", "n", "s">>,
                  <<"r", "e", "s", "o", "l", "u", "t", "i", "o", "n">>,
                  <<"n", "a", "m", "e", " ", "r", "e", "s", "o", "l", "u", "t", "i", "o", "n">>,
                  <<"n", "s", "l", "o", "o", "k", "u", "p">> >>],
    [category |-> CAT.Firewall,
     keywords |-> << <<"f", "i", "r", "e", "w", "a", "l", "l">>,
                  <<"b", "l", "o", "c", "k", "e", "d">>,
                  <<"s", "e", "c", "u", "r", "i", "t", "y">>,
                  <<"a", "c", "c", "e", "s", "s", " ", "d", "e", "n", "i", "e", "d">> >>],
    [category |-> CAT.Connectivity,
     keywords |-> << <<"c", "o", "n", "n", "e", "c", "t", "i", "v", "i", "t", "y">>,
                  <<"c", "o", "n", "n", "e", "c", "t", "i", "o", "n">>,
                  <<"n", "e", "t", "w", "o", "r", "k">>,
                  <<"p", "i", "n", "g">>,
                  <<"u", "n", "r", "e", "a", "c", "h", "a", "b", "l", "e">> >>],
    [category |-> CAT.Hardware,
     keywords |-> << <<"h", "a", "r", "d", "w", "a", "r", "e">>,
                  <<"d", "e", "v", "i", "c", "e">>,
                  <<"r", "o", "u", "t", "e", "r">>,
                  <<"s", "w", "i", "t", "c", "h">>,
                  <<"e", "q", "u", "i", "p", "m", "e", "n", "t", " ", "f", "a", "i", "l", "u", "r", "e">> >>]
  >>

ConfigCategorizationRules ==
  <<
    [category |-> CAT.WiFi,
     keywords |-> << <<"w", "i", "f", "i">>,
                  <<"w", "i", "r", "e", "l", "e", "s", "s">>,
                  <<"a", "c", "c", "e", "s", "s", " ", "p", "o", "i", "n", "t">>,
                  <<"w", "a", "p">>,
                  <<"s", "s", "i", "d">> >>],
    [category |-> CAT.VPN,
     keywords |-> << <<"v", "p", "n">>,
                  <<"r", "e", "m", "o", "t", "e">>,
                  <<"z", "s", "c", "a", "l", "e", "r">>,
                  <<"r", "e", "m", "o", "t", "e", " ", "a", "c", "c", "e", "s", "s">> >>],
    [category |-> CAT.Printing,
     keywords |-> << <<"p", "r", "i", "n", "t", "e", "r">>,
                  <<"p", "r", "i", "n", "t">>,
                  <<"p", "r", "i", "n", "t", "i", "n", "g">> >>],
    [category |-> CAT.Server,
     keywords |-> << <<"s", "e", "r", "v", "e", "r">>,
                  <<"p", "e", "r", "f", "o", "r", "m", "a", "n", "c", "e">>,
                  <<"s", "l", "o", "w">>,
                  <<"c", "l", "e", "a", "r", "c", "a", "s", "e">> >>],
    [category |-> CAT.DNS,
     keywords |-> << <<"d", "n", "s">>,
                  <<"r", "e", "s", "o", "l", "u", "t", "i", "o", "n">>,
                  <<"n", "a", "m", "e", " ", "r", "e", "s", "o", "l", "u", "t", "i", "o", "n">> >>],
    [category |-> CAT.Firewall,
     keywords |-> << <<"f", "i", "r", "e", "w", "a", "l", "l">>,
                  <<"b", "l", "o", "c", "k", "e", "d">>,
                  <<"s", "e", "c", "u", "r", "i", "t", "y">> >>],
    [category |-> CAT.Connectivity,
     keywords |-> << <<"c", "o", "n", "n", "e", "c", "t", "i", "v", "i", "t", "y">>,
                  <<"c", "o", "n", "n", "e", "c", "t", "i", "o", "n">>,
                  <<"n", "e", "t", "w", "o", "r", "k">>,
                  <<"p", "i", "n", "g">> >>],
    [category |-> CAT.Hardware,
     keywords |-> << <<"h", "a", "r", "d", "w", "a", "r", "e">>,
                  <<"d", "e", "v", "i", "c", "e">>,
                  <<"r", "o", "u", "t", "e", "r">>,
                  <<"s", "w", "i", "t", "c", "h">> >>]
  >>

----------------------------------------------------------------------------
(* normalize_columns *)

RawColumns == {"incident_state", "opened", "opened_at", "resolved",
               "resolved_at", "u_resolved", "u_ci_type"}

\* a mapping that lacks the opened_at variant
column_mapping_without_opened_at(c) ==
  CASE c = "incident_state" -> "state"
    [] c = "opened"         -> "openedDate"
    [] c = "resolved"       -> "resolvedDate"
    [] c = "resolved_at"    -> "resolvedDate"
    [] c = "u_resolved"     -> "resolvedDate"
    [] c = "u_ci_type"      -> "ci_type"
    [] OTHER                -> c

column_mapping(c) ==
  CASE c = "incident_state" -> "state"
    [] c = "opened"         -> "openedDate"
    [] c = "opened_at"      -> "openedDate"
    [] c = "resolved"       -> "resolvedDate"
    [] c = "resolved_at"    -> "resolvedDate"
    [] c = "u_resolved"     -> "resolvedDate"
    [] c = "u_ci_type"      -> "ci_type"
    [] OTHER                -> c

\* df.rename returns a new table; with nothing to rename the argument itself
\* is returned
normalize_columns(o) ==
  IF \E c \in RawColumns : HasCol(o.t, c)
    THEN Outcome("", "fresh",
                 Table([i \in 1..Len(o.t.cols) |-> column_mapping(o.t.cols[i])],
                       o.t.rows))
    ELSE o

----------------------------------------------------------------------------
(* parse_dates *)

date_columns == <<"openedDate", "resolvedDate", "closedDate",
                  "sys_created_on", "sys_updated_on">>

\* pd.to_datetime(value, errors='coerce')
to_datetime(c) ==
  IF c.k = "datetext" THEN Ts(c.n)
  ELSE IF c.k = "dt" THEN c
  ELSE NaT

\* the loop over date_columns from position i; pd.to_datetime of a
\* duplicated label is given a DataFrame and raises
RECURSIVE ParseDatesFrom(_, _)
ParseDatesFrom(o, i) ==
  IF i > Len(date_columns) THEN o
  ELSE IF ~HasCol(o.t, date_columns[i]) THEN ParseDatesFrom(o, i + 1)
  ELSE IF IsDup(o.t, date_columns[i]) THEN Outcome("ValueError", o.obj, o.t)
  ELSE ParseDatesFrom(
         Outcome("", o.obj,
                 SetCol(o.t, date_columns[i],
                        [r \in 1..NRows(o.t) |->
                           to_datetime(Get(o.t, r, date_columns[i]))])),
         i + 1)

parse_dates(o) == ParseDatesFrom(o, 1)

----------------------------------------------------------------------------
(* add_status_fields *)

\* a list of active states that leaves out On Hold
active_states_without_on_hold == {ST.New, ST.InProgress, ST.AwaitingUserInfo, ST.Pending}

\* active_states = ['New', 'In Progress', 'Awaiting User Info', 'On Hold', 'Pending']
active_states == {ST.New, ST.InProgress, ST.AwaitingUserInfo, ST.OnHold, ST.Pending}

\* a list of resolved states that overlaps the active ones
resolved_states_with_on_hold == {ST.Resolved, ST.Closed, ST.OnHold}

\* df['state'].isin(['Resolved', 'Closed'])
resolved_states == {ST.Resolved, ST.Closed}

\* Series.isin(values)
IsIn(c, values) == c.k = "str" /\ c.s \in values

\* astype(str).str.contains('1 - Critical|2 - High', case=False, na=False)
IsHighImpactPriority(c) ==
  \/ Contains(Lower(AsStr(c)), Lower(PR.Critical))
  \/ Contains(Lower(AsStr(c)), Lower(PR.High))

\* astype(str).str.contains('1 - Critical', case=False, na=False)
IsCriticalPriority(c) == Contains(Lower(AsStr(c)), Lower(PR.Critical))

AllRows(t, b) == [r \in 1..NRows(t) |-> BoolCell(b)]

StatusState(t) ==
  IF HasCol(t, "state")
    THEN SetCol(SetCol(t, "isActive",
                       [r \in 1..NRows(t) |-> BoolCell(IsIn(Get(t, r, "state"), active_states))]),
                "isResolved",
                [r \in 1..NRows(t) |-> BoolCell(IsIn(Get(t, r, "state"), resolved_states))])
    ELSE SetCol(SetCol(t, "isActive", AllRows(t, FALSE)), "isResolved", AllRows(t, FALSE))

StatusPriority(t) ==
  IF HasCol(t, "priority")
    THEN SetCol(SetCol(t, "isHighImpact",
                       [r \in 1..NRows(t) |-> BoolCell(IsHighImpactPriority(Get(t, r, "priority")))]),
                "isCritical",
                [r \in 1..NRows(t) |-> BoolCell(IsCriticalPriority(Get(t, r, "priority")))])
    ELSE SetCol(SetCol(t, "isHighImpact", AllRows(t, FALSE)), "isCritical", AllRows(t, FALSE))

\* a duplicated 'state' label makes df['state'].isin(...) a DataFrame, which
\* cannot be assigned to the single column isActive
add_status_fields(o) ==
  IF IsDup(o.t, "state") THEN Outcome("ValueError", o.obj, o.t)
  ELSE Outcome("", o.obj, StatusPriority(StatusState(o.t)))

----------------------------------------------------------------------------
(* add_categorization *)

\* any(keyword in text for keyword in keywords)
AnyKeyword(keywords, text) ==
  \E k \in 1..Len(keywords) : Contains(text, keywords[k])

\* a loop that keeps the last matching category instead of returning the first
CategorizeLastMatch(rules, text, i) ==
  LET matching == {j \in i..Len(rules) : AnyKeyword(rules[j].keywords, text)}
  IN IF matching = {} THEN CAT.Other
     ELSE rules[CHOOSE j \in matching : \A k \in matching : k <= j].category

\* for category, keywords in rules.items(): ... return category
RECURSIVE CategorizeFrom(_, _, _)
CategorizeFrom(rules, text, i) ==
  IF i > Len(rules) THEN CAT.Other
  ELSE IF AnyKeyword(rules[i].keywords, text) THEN rules[i].category
  ELSE CategorizeFrom(rules, text, i + 1)

\* ' '.join([str(short_description), str(description)]).lower()
IncidentText(t, r) ==
  Lower(AsStr(RowGet(t, r, "short_description", Str(STR.empty)))
        \o STR.space
        \o AsStr(RowGet(t, r, "description", Str(STR.empty))))

categorize_incident(t, r, rules) == CategorizeFrom(rules, IncidentText(t, r), 1)

add_categorization(o, rules) ==
  Outcome("", o.obj,
          SetCol(o.t, "patternCategory",
                 [r \in 1..NRows(o.t) |-> Str(categorize_incident(o.t, r, rules))]))

----------------------------------------------------------------------------
(* calculate_durations *)

SecondsPerHour == 3600

HoursPerDay == 24

\* value / k on a float cell; NaN stays NaN
DivCell(c, k) == IF c.k = "float" THEN Flt(c.n, c.d * k) ELSE NaN

\* a subtraction with its operands exchanged
HoursBetweenSwapped(a, b) ==
  IF a.k = "dt" /\ b.k = "dt" THEN Flt(a.n - b.n, SecondsPerHour) ELSE NaN

\* (b - a).total_seconds() / 3600 for two datetime cells; NaT gives NaN
HoursBetween(a, b) ==
  IF a.k = "dt" /\ b.k = "dt" THEN Flt(b.n - a.n, SecondsPerHour) ELSE NaN

\* df['resolvedDate'].notna() & df['openedDate'].notna()
resolved_mask(t) ==
  [r \in 1..NRows(t) |-> ~IsNa(Get(t, r, "resolvedDate")) /\ ~IsNa(Get(t, r, "openedDate"))]

\* an age computed for every row, active or not
active_mask_all(t) == [r \in 1..NRows(t) |-> TRUE]

\* df.get('isActive', pd.Series([False] * len(df)))
active_mask(t) ==
  [r \in 1..NRows(t) |-> IF HasCol(t, "isActive") THEN IsTrue(Get(t, r, "isActive")) ELSE FALSE]

\* lines 249-266: the subtraction and .dt need both columns to be datetime64
ResolutionTimes(o) ==
  IF HasCol(o.t, "resolvedDate") /\ HasCol(o.t, "openedDate")
    THEN IF \/ IsDup(o.t, "resolvedDate") \/ IsDup(o.t, "openedDate")
            \/ ~IsDatetimeCol(o.t, "resolvedDate") \/ ~IsDatetimeCol(o.t, "openedDate")
           THEN Outcome("TypeError", o.obj, o.t)
           ELSE LET m  == resolved_mask(o.t)
                    t1 == SetWhere(o.t, "resolutionTimeHrs", m,
                                   [r \in 1..NRows(o.t) |->
                                      HoursBetween(Get(o.t, r, "openedDate"),
                                                   Get(o.t, r, "resolvedDate"))])
                IN Outcome("", o.obj,
                           SetWhere(t1, "resolutionTimeDays", m,
                                    [r \in 1..NRows(t1) |->
                                       DivCell(Get(t1, r, "resolutionTimeHrs"), HoursPerDay)]))
    ELSE Outcome("", o.obj,
                 SetCol(SetCol(o.t, "resolutionTimeHrs", [r \in 1..NRows(o.t) |-> NaN]),
                        "resolutionTimeDays", [r \in 1..NRows(o.t) |-> NaN]))

\* lines 268-280, with current_time = pd.Timestamp.now()
Ages(o, current_time) ==
  IF HasCol(o.t, "openedDate")
    THEN IF IsDup(o.t, "openedDate") \/ ~IsDatetimeCol(o.t, "openedDate")
           THEN Outcome("TypeError", o.obj, o.t)
           ELSE LET m  == active_mask(o.t)
                    t1 == SetWhere(o.t, "ageHrs", m,
                                   [r \in 1..NRows(o.t) |->
                                      HoursBetween(Get(o.t, r, "openedDate"), Ts(current_time))])
                IN Outcome("", o.obj,
                           SetWhere(t1, "ageDays", m,
                                    [r \in 1..NRows(t1) |->
                                       DivCell(Get(t1, r, "ageHrs"), HoursPerDay)]))
    ELSE Outcome("", o.obj,
                 SetCol(SetCol(o.t, "ageHrs", [r \in 1..NRows(o.t) |-> NaN]),
                        "ageDays", [r \in 1..NRows(o.t) |-> NaN]))

calculate_durations(o, current_time) ==
  LET o1 == ResolutionTimes(o)
  IN IF o1.err # "" THEN o1 ELSE Ages(o1, current_time)

----------------------------------------------------------------------------
(* calculate_sla_breach *)

\* sla_rules.get(priority, 72)
SlaThreshold(sla_rules, priority) ==
  IF priority.k = "str" /\ \E i \in 1..Len(sla_rules) : sla_rules[i].priority = priority.s
    THEN sla_rules[CHOOSE i \in 1..Len(sla_rules) : sla_rules[i].priority = priority.s].hours
    ELSE DefaultSlaHours

\* priority = row.get('priority', '4 - Low')
RowPriority(t, r) == RowGet(t, r, "priority", Str(PR.Low))

\* a comparison that counts a resolution in exactly the threshold as a breach
check_sla_breach_inclusive(t, r, sla_rules) ==
  LET resolution_time == RowGet(t, r, "resolutionTimeHrs", NaN)
  IN IF IsNa(resolution_time) THEN FALSE
     ELSE resolution_time.n >= SlaThreshold(sla_rules, RowPriority(t, r)) * resolution_time.d

\* resolution_time > sla_rules.get(priority, 72)
check_sla_breach(t, r, sla_rules) ==
  LET resolution_time == RowGet(t, r, "resolutionTimeHrs", NaN)
  IN IF IsNa(resolution_time) THEN FALSE
     ELSE resolution_time.n > SlaThreshold(sla_rules, RowPriority(t, r)) * resolution_time.d

calculate_sla_margin(t, r, sla_rules) ==
  LET resolution_time == RowGet(t, r, "resolutionTimeHrs", NaN)
  IN IF IsNa(resolution_time) THEN NaN
     ELSE Flt(SlaThreshold(sla_rules, RowPriority(t, r)) * resolution_time.d - resolution_time.n,
              resolution_time.d)

\* the statistics logged at the end read df['resolutionTimeHrs'], a KeyError
\* when no stage has made that column
calculate_sla_breach(o, sla_rules) ==
  LET t1 == SetCol(o.t, "slaBreach",
                   [r \in 1..NRows(o.t) |-> BoolCell(check_sla_breach(o.t, r, sla_rules))])
      t2 == SetCol(t1, "slaMarginHrs",
                   [r \in 1..NRows(t1) |-> calculate_sla_margin(t1, r, sla_rules)])
  IN IF HasCol(t2, "resolutionTimeHrs")
       THEN Outcome("", o.obj, t2)
       ELSE Outcome("KeyError", o.obj, t2)

----------------------------------------------------------------------------
(* estimate_user_impact *)

\* a base estimate whose 50 class has no 'wireless' keyword
base_impact_without_wireless(ci_type) ==
  IF Contains(ci_type, KW.server) \/ Contains(ci_type, KW.firewall) THEN 100
  ELSE IF Contains(ci_type, KW.access_point) \/ Contains(ci_type, KW.wifi) THEN 50
  ELSE IF Contains(ci_type, KW.router) \/ Contains(ci_type, KW.switch) THEN 75
  ELSE IF Contains(ci_type, KW.printer) THEN 15
  ELSE 25

base_impact(ci_type) ==
  IF Contains(ci_type, KW.server) \/ Contains(ci_type, KW.firewall) THEN 100
  ELSE IF \/ Contains(ci_type, KW.access_point) \/ Contains(ci_type, KW.wifi)
          \/ Contains(ci_type, KW.wireless) THEN 50
  ELSE IF Contains(ci_type, KW.router) \/ Contains(ci_type, KW.switch) THEN 75
  ELSE IF Contains(ci_type, KW.printer) THEN 15
  ELSE 25

\* twice the multiplier: 2.0, 1.5, 0.5, 1.0
multiplier2(priority) ==
  IF Contains(priority, PR.Critical) \/ Contains(priority, STR.one) THEN 4
  ELSE IF Contains(priority, PR.High) THEN 3
  ELSE IF Contains(priority, PR.Low) THEN 1
  ELSE 2

\* int(base_impact * multiplier)
estimate_impact(t, r) ==
  LET ci_type  == Lower(AsStr(RowGet(t, r, "ci_type", Str(STR.empty))))
      priority == AsStr(RowGet(t, r, "priority", Str(STR.empty)))
  IN (base_impact(ci_type) * multiplier2(priority)) \div 2

estimate_user_impact(o) ==
  Outcome("", o.obj,
          SetCol(o.t, "userImpactEstimate",
                 [r \in 1..NRows(o.t) |-> IntCell(estimate_impact(o.t, r))]))

----------------------------------------------------------------------------
(* add_temporal_fields.  Instants lie in January and February 2024, where  *)
(* the ISO week of day 0 (Monday 2024-01-01) is 1.                         *)

SecondsPerDay == 86400

MonthNames == << <<"J", "a", "n", "u", "a", "r", "y">>,
                 <<"F", "e", "b", "r", "u", "a", "r", "y">> >>

DayNames == << <<"M", "o", "n", "d", "a", "y">>,
               <<"T", "u", "e", "s", "d", "a", "y">>,
               <<"W", "e", "d", "n", "e", "s", "d", "a", "y">>,
               <<"T", "h", "u", "r", "s", "d", "a", "y">>,
               <<"F", "r", "i", "d", "a", "y">>,
               <<"S", "a", "t", "u", "r", "d", "a", "y">>,
               <<"S", "u", "n", "d", "a", "y">> >>

DayIndex(c) == c.n \div SecondsPerDay

\* .dt.isocalendar().week
WeekOf(c) == IF c.k = "dt" THEN IntCell((DayIndex(c) \div 7) + 1) ELSE NaN

\* .dt.month
MonthOf(c) == IF c.k = "dt" THEN IntCell(IF DayIndex(c) < 31 THEN 1 ELSE 2) ELSE NaN

\* .dt.month_name()
MonthNameOf(c) == IF c.k = "dt" THEN Str(MonthNames[MonthOf(c).n]) ELSE NaN

\* .dt.quarter
QuarterOf(c) == IF c.k = "dt" THEN IntCell(1) ELSE NaN

\* .dt.year
YearOf(c) == IF c.k = "dt" THEN IntCell(2024) ELSE NaN

\* .dt.dayofweek, 0 = Monday
DayOfWeekOf(c) == IF c.k = "dt" THEN IntCell(DayIndex(c) % 7) ELSE NaN

\* .dt.day_name()
DayNameOf(c) == IF c.k = "dt" THEN Str(DayNames[(DayIndex(c) % 7) + 1]) ELSE NaN

\* .dt.hour
HourOf(c) == IF c.k = "dt" THEN IntCell((c.n \div SecondsPerHour) % HoursPerDay) ELSE NaN

\* (dayOfWeek < 5) & (hourOfDay >= 9) & (hourOfDay < 17); a comparison with
\* NaN is False
IsBusinessHours(dow, hour) ==
  BoolCell(/\ dow.k = "int" /\ dow.n < 5
           /\ hour.k = "int" /\ hour.n >= 9 /\ hour.n < 17)

MapCol(t, new, F(_)) ==
  SetCol(t, new, [r \in 1..NRows(t) |-> F(Get(t, r, "openedDate"))])

add_temporal_fields(o) ==
  IF ~HasCol(o.t, "openedDate") THEN o
  ELSE IF IsDup(o.t, "openedDate") \/ ~IsDatetimeCol(o.t, "openedDate")
    THEN Outcome("AttributeError", o.obj, o.t)
  ELSE LET t1 == MapCol(o.t, "week", WeekOf)
           t2 == MapCol(t1, "month", MonthOf)
           t3 == MapCol(t2, "monthName", MonthNameOf)
           t4 == MapCol(t3, "quarter", QuarterOf)
           t5 == MapCol(t4, "year", YearOf)
           t6 == MapCol(t5, "dayOfWeek", DayOfWeekOf)
           t7 == MapCol(t6, "dayOfWeekName", DayNameOf)
           t8 == MapCol(t7, "hourOfDay", HourOf)
       IN Outcome("", o.obj,
                  SetCol(t8, "isBusinessHours",
                         [r \in 1..NRows(t8) |->
                            IsBusinessHours(Get(t8, r, "dayOfWeek"), Get(t8, r, "hourOfDay"))]))

----------------------------------------------------------------------------
(* transform_incidents *)

\* `x in transformations`
InList(x, l) == \E i \in 1..Len(l) : l[i] = x

\* transformations=None
None == <<"None">>

DefaultTransformations ==
  <<"normalize", "dates", "status", "categorization", "durations", "sla", "impact">>

Effective(transformations) ==
  IF transformations = None \/ InList("all", transformations)
    THEN DefaultTransformations
    ELSE transformations

\* a pipeline that works on the caller's table instead of a copy of it
DfAlias(d) == Outcome("", "caller", d)

\* df_transformed = df.copy()
DfCopy(d) == Outcome("", "fresh", d)

\* one `if name in transformations: df_transformed = stage(df_transformed)`
Stage(o, name, transformations, F(_)) ==
  IF o.err # "" \/ ~InList(name, transformations) THEN o ELSE F(o)

\* a pipeline that tests 'status' before 'normalize' and 'dates'
transform_incidents_status_first(d, transformations, current_time, categorization_rules) ==
  IF IsEmpty(d) THEN Outcome("", "caller", d)
  ELSE LET sel == Effective(transformations)
           o1 == Stage(DfCopy(d), "status", sel, add_status_fields)
           o2 == Stage(o1, "normalize", sel, normalize_columns)
           o3 == Stage(o2, "dates", sel, parse_dates)
           o4 == Stage(o3, "categorization", sel,
                       LAMBDA o : add_categorization(o, categorization_rules))
           o5 == Stage(o4, "durations", sel,
                       LAMBDA o : calculate_durations(o, current_time))
           o6 == Stage(o5, "sla", sel,
                       LAMBDA o : calculate_sla_breach(o, ConfigSlaRules))
           o7 == Stage(o6, "impact", sel, estimate_user_impact)
       IN Stage(o7, "temporal", sel, add_temporal_fields)

transform_incidents(d, transformations, current_time, categorization_rules) ==
  IF IsEmpty(d) THEN Outcome("", "caller", d)
  ELSE LET sel == Effective(transformations)
           o1 == Stage(DfCopy(d), "normalize", sel, normalize_columns)
           o2 == Stage(o1, "dates", sel, parse_dates)
           o3 == Stage(o2, "status", sel, add_status_fields)
           o4 == Stage(o3, "categorization", sel,
                       LAMBDA o : add_categorization(o, categorization_rules))
           o5 == Stage(o4, "durations", sel,
                       LAMBDA o : calculate_durations(o, current_time))
           o6 == Stage(o5, "sla", sel,
                       LAMBDA o : calculate_sla_breach(o, ConfigSlaRules))
           o7 == Stage(o6, "impact", sel, estimate_user_impact)
       IN Stage(o7, "temporal", sel, add_temporal_fields)

\* what the caller's table holds after a call that ended in outcome o
CallerTable(d, o) == IF o.obj = "caller" THEN o.t ELSE d

----------------------------------------------------------------------------
(* Metrics aggregators (snow_analytics.analysis.metrics).  Percentages and *)
(* rounded statistics are kept in hundredths: 5000 is 50.0.                *)

\* round(100 * num / den, 2), in hundredths
RoundPct(num, den) == (2 * 10000 * num + den) \div (2 * den)

\* the distinct non-null values of a text column over the rows of t
UniqueText(t, c) ==
  {Get(t, r, c).s : r \in {q \in 1..NRows(t) : Get(t, q, c).k = "str"}}

RowsWith(t, c, s) ==
  {r \in 1..NRows(t) : Get(t, r, c).k = "str" /\ Get(t, r, c).s = s}

NoMetrics == [kind |-> "none"]

ZeroSlaMetrics ==
  [kind |-> "sla", total_resolved |-> 0, sla_breached |-> 0, sla_met |-> 0,
   breach_rate_pct |-> 0, by_priority |-> <<>>]

\* no selection of the resolved rows: every row counts
ResolvedAll(t) == Filter(t, [r \in 1..NRows(t) |-> TRUE])

\* df[df['resolutionTimeHrs'].notna()]
Resolved(t) ==
  Filter(t, [r \in 1..NRows(t) |-> ~IsNa(Get(t, r, "resolutionTimeHrs"))])

NumBreached(t, rows) == Cardinality({r \in rows : IsTrue(Get(t, r, "slaBreach"))})

\* (~resolved_df['slaBreach']).sum()
NumMet(t, rows) == Cardinality({r \in rows : ~IsTrue(Get(t, r, "slaBreach"))})

SlaByPriority(t) ==
  IF HasCol(t, "priority") /\ HasCol(t, "slaBreach")
    THEN [p \in UniqueText(t, "priority") |->
            LET rows == RowsWith(t, "priority", p)
            IN [total |-> Cardinality(rows),
                breached |-> NumBreached(t, rows),
                met |-> Cardinality(rows) - NumBreached(t, rows),
                breach_rate_pct |-> RoundPct(NumBreached(t, rows), Cardinality(rows))]]
    ELSE <<>>

calculate_sla_metrics(d) ==
  IF ~HasCol(d, "resolutionTimeHrs") THEN ZeroSlaMetrics
  ELSE LET resolved_df == Resolved(d)
           all == 1..NRows(resolved_df)
       IN IF NRows(resolved_df) = 0 THEN ZeroSlaMetrics
          ELSE [kind |-> "sla",
                total_resolved |-> NRows(resolved_df),
                sla_breached |-> IF HasCol(resolved_df, "slaBreach")
                                   THEN NumBreached(resolved_df, all) ELSE 0,
                sla_met |-> IF HasCol(resolved_df, "slaBreach")
                              THEN NumMet(resolved_df, all) ELSE 0,
                breach_rate_pct |-> IF HasCol(resolved_df, "slaBreach")
                                      THEN RoundPct(NumBreached(resolved_df, all),
                                                    NRows(resolved_df))
                                      ELSE 0,
                by_priority |-> SlaByPriority(resolved_df)]

\* analyze_resolution_times: the count per group; the mean, median, extremes
\* and percentiles are statistics of the same rows and are not carried
EmptyResolutionAnalysis ==
  [kind |-> "resolution", overall |-> 0, by_priority |-> <<>>, by_category |-> <<>>]

analyze_resolution_times(d, by_priority, by_category) ==
  IF ~HasCol(d, "resolutionTimeHrs") THEN EmptyResolutionAnalysis
  ELSE LET resolved_df == Resolved(d)
       IN IF NRows(resolved_df) = 0 THEN EmptyResolutionAnalysis
          ELSE [kind |-> "resolution",
                overall |-> NRows(resolved_df),
                by_priority |->
                  IF by_priority /\ HasCol(resolved_df, "priority")
                    THEN [p \in UniqueText(resolved_df, "priority") |->
                            Cardinality(RowsWith(resolved_df, "priority", p))]
                    ELSE <<>>,
                by_category |->
                  IF by_category /\ HasCol(resolved_df, "patternCategory")
                    THEN [c \in UniqueText(resolved_df, "patternCategory") |->
                            Cardinality(RowsWith(resolved_df, "patternCategory", c))]
                    ELSE <<>>]

\* calculate_backlog_metrics
ZeroBacklogMetrics(snapshot_date) ==
  [kind |-> "backlog", err |-> "", snapshot_date |-> snapshot_date, total_backlog |-> 0,
   by_priority |-> <<>>,
   by_age |-> [less_than_24h |-> 0, h24_to_3days |-> 0, d3_to_1week |-> 0,
               w1_to_1month |-> 0, more_than_1month |-> 0]]

\* (pd.Timestamp(snapshot_date) - openedDate).dt.total_seconds() / (3600 * 24),
\* as the float n/d; NaT gives NaN
current_age_days(t, r, snapshot_date) ==
  IF Get(t, r, "openedDate").k = "dt"
    THEN Flt(snapshot_date - Get(t, r, "openedDate").n, SecondsPerDay)
    ELSE NaN

\* ((age >= lo) & (age < hi)).sum(); hi = 0 stands for no upper limit and
\* lo = 0 for no lower limit; a comparison with NaN is False
AgeBucket(t, snapshot_date, lo, hi) ==
  Cardinality({r \in 1..NRows(t) :
     LET age == current_age_days(t, r, snapshot_date)
     IN /\ age.k = "float"
        /\ (lo = 0 \/ age.n >= lo * age.d)
        /\ (hi = 0 \/ age.n < hi * age.d)})

calculate_backlog_metrics(d, snapshot_date) ==
  IF ~HasCol(d, "isActive") THEN ZeroBacklogMetrics(snapshot_date)
  ELSE LET active_df == Filter(d, [r \in 1..NRows(d) |-> IsTrue(Get(d, r, "isActive"))])
       IN IF NRows(active_df) = 0 THEN ZeroBacklogMetrics(snapshot_date)
          ELSE IF HasCol(active_df, "openedDate") /\ ~IsDatetimeCol(active_df, "openedDate")
            THEN [ZeroBacklogMetrics(snapshot_date) EXCEPT !.err = "TypeError"]
          ELSE [kind |-> "backlog", err |-> "", snapshot_date |-> snapshot_date,
                total_backlog |-> NRows(active_df),
                by_priority |->
                  IF HasCol(active_df, "priority")
                    THEN [p \in UniqueText(active_df, "priority") |->
                            Cardinality(RowsWith(active_df, "priority", p))]
                    ELSE <<>>,
                by_age |->
                  IF HasCol(active_df, "openedDate")
                    THEN [less_than_24h    |-> AgeBucket(active_df, snapshot_date, 0, 1),
                          h24_to_3days     |-> AgeBucket(active_df, snapshot_date, 1, 3),
                          d3_to_1week      |-> AgeBucket(active_df, snapshot_date, 3, 7),
                          w1_to_1month     |-> AgeBucket(active_df, snapshot_date, 7, 30),
                          more_than_1month |-> AgeBucket(active_df, snapshot_date, 30, 0)]
                    ELSE ZeroBacklogMetrics(snapshot_date).by_age]

----------------------------------------------------------------------------
(* analyze_reassignments *)

\* a classification that tests the lower limit first
classify_reassignment_severity_low_first(count) ==
  IF count > 3 THEN SEV.High
  ELSE IF count > 5 THEN SEV.Critical
  ELSE SEV.Moderate

classify_reassignment_severity(count) ==
  IF count > 5 THEN SEV.Critical
  ELSE IF count > 3 THEN SEV.High
  ELSE SEV.Moderate

\* `column > threshold`; a comparison with NaN is False
Exceeds(c, threshold) == c.k \in {"int", "float"} /\ c.n > threshold * c.d

ReassignmentColumns ==
  <<"number", "short_description", "priority", "assignment_group",
    "reassignment_count", "reassignment_severity">>

\* df[[c1, ..., cn]]
Project(t, cols) ==
  Table(cols, [r \in 1..NRows(t) |-> [i \in 1..Len(cols) |-> Get(t, r, cols[i])]])

\* the final selection of six columns raises KeyError when one is missing
analyze_reassignments(d, threshold) ==
  IF ~HasCol(d, "reassignment_count") THEN Outcome("", "fresh", EmptyTable)
  ELSE LET excessive == Filter(d, [r \in 1..NRows(d) |->
                                     Exceeds(Get(d, r, "reassignment_count"), threshold)])
           labelled  == SetCol(excessive, "reassignment_severity",
                               [r \in 1..NRows(excessive) |->
                                  Str(classify_reassignment_severity(
                                        Get(excessive, r, "reassignment_count").n))])
       IN IF NRows(excessive) = 0 THEN Outcome("", "fresh", EmptyTable)
          ELSE IF \E i \in 1..Len(ReassignmentColumns) :
                    ~HasCol(labelled, ReassignmentColumns[i])
            THEN Outcome("KeyError", "fresh", labelled)
          ELSE Outcome("", "fresh", Project(labelled, ReassignmentColumns))

----------------------------------------------------------------------------
(* Quality checks (snow_analytics.analysis.quality) *)

\* df_check[flag] = False; df_check.loc[mask, flag] = True
Flag(t, flag, mask) == SetCol(t, flag, [r \in 1..NRows(t) |-> BoolCell(mask[r])])

detect_priority_misclassification(t) ==
  Flag(t, "quality_priority_mismatch",
       [r \in 1..NRows(t) |->
          /\ HasCol(t, "priority") /\ HasCol(t, "resolutionTimeHrs")
          /\ Contains(AsStr(Get(t, r, "priority")), PR.Critical)
          /\ Exceeds(Get(t, r, "resolutionTimeHrs"), 24)])

detect_on_hold_abuse(t, threshold_hours) ==
  Flag(t, "quality_on_hold_abuse",
       [r \in 1..NRows(t) |->
          /\ HasCol(t, "state") /\ HasCol(t, "ageHrs")
          /\ Get(t, r, "state") = Str(ST.OnHold)
          /\ Exceeds(Get(t, r, "ageHrs"), threshold_hours)])

check_description_quality(t, min_length) ==
  Flag(t, "quality_poor_description",
       [r \in 1..NRows(t) |->
          /\ HasCol(t, "short_description")
          /\ Len(AsStr(Get(t, r, "short_description"))) < min_length])

flag_excessive_reassignments(t, threshold) ==
  Flag(t, "quality_excessive_reassignments",
       [r \in 1..NRows(t) |->
          /\ HasCol(t, "reassignment_count")
          /\ Exceeds(Get(t, r, "reassignment_count"), threshold)])

\* col.startswith('quality_'), over the column names that occur
QualityPrefixed ==
  {"quality_priority_mismatch", "quality_on_hold_abuse", "quality_poor_description",
   "quality_excessive_reassignments", "quality_issues_count"}

\* df_quality[quality_columns].sum(axis=1) for row r, from column i on
RECURSIVE SumQuality(_, _, _)
SumQuality(t, r, i) ==
  IF i > Len(t.cols) THEN 0
  ELSE (IF t.cols[i] \in QualityPrefixed THEN t.rows[r][i].n ELSE 0)
       + SumQuality(t, r, i + 1)

QualityCount(t) ==
  IF \E i \in 1..Len(t.cols) : t.cols[i] \in QualityPrefixed
    THEN SetCol(t, "quality_issues_count",
                [r \in 1..NRows(t) |-> IntCell(SumQuality(t, r, 1))])
    ELSE t

\* the quality section of the default configuration
DefaultQualityRules ==
  [on_hold_threshold_hours |-> 72, min_description_length |-> 20,
   max_reassignment_threshold |-> 3]

\* the defaults of the four checks' own parameters are used: quality_rules
\* is not read
check_incident_quality(d, quality_rules) ==
  Outcome("", "fresh",
          QualityCount(
            flag_excessive_reassignments(
              check_description_quality(
                detect_on_hold_abuse(
                  detect_priority_misclassification(d), 72), 20), 3)))

----------------------------------------------------------------------------
(* find_recurring_issues (snow_analytics.analysis.patterns) *)

\* df.groupby(['patternCategory', 'cmdb_ci']).size(): groups with a null key
\* are dropped
Groups(d) ==
  {<<Get(d, r, "patternCategory").s, Get(d, r, "cmdb_ci").s>> :
     r \in {q \in 1..NRows(d) : /\ Get(d, q, "patternCategory").k = "str"
                                /\ Get(d, q, "cmdb_ci").k = "str"}}

GroupSize(d, g) ==
  Cardinality({r \in 1..NRows(d) : /\ Get(d, r, "patternCategory") = Str(g[1])
                                   /\ Get(d, r, "cmdb_ci") = Str(g[2])})

\* the lists sort_values('count', ascending=False) can return: groups of a
\* same count come in an order the sort does not fix
RecurringLists(d, min_occurrences) ==
  IF ~HasCol(d, "patternCategory") \/ ~HasCol(d, "cmdb_ci") THEN {<<>>}
  ELSE LET kept == {g \in Groups(d) : GroupSize(d, g) >= min_occurrences}
           n == Cardinality(kept)
       IN {[i \in 1..n |-> [category |-> f[i][1], ci |-> f[i][2],
                            occurrences |-> GroupSize(d, f[i])]] :
             f \in {h \in [1..n -> kept] :
                      /\ \A i, j \in 1..n : i # j => h[i] # h[j]
                      /\ \A i, j \in 1..n :
                           i < j => GroupSize(d, h[i]) >= GroupSize(d, h[j])}}

----------------------------------------------------------------------------
(* Input tables *)

\* the wall clock when the program starts: day 40, 00:00:00
Now0 == 40 * SecondsPerDay

Hours(h) == h * SecondsPerHour

Days(n) == n * SecondsPerDay

Incident(number, short, desc, priority, state, opened, resolved, ci_type, count, group, ci) ==
  [number |-> number, short_description |-> short, description |-> desc,
   priority |-> priority, state |-> state, opened |-> opened, resolved |-> resolved,
   ci_type |-> ci_type, reassignment_count |-> count, assignment_group |-> group,
   cmdb_ci |-> ci]

\* incidents the generated tables are made of
SampleIncidents ==
  << \* active for one second less than a day at Now0
     Incident(Str(TXT.INC001), Str(TXT.WifiShort), Str(TXT.WifiDesc), Str(PR.Critical),
              Str(ST.New), DateText(Now0 - Days(1) + 1), Str(STR.empty),
              Str(CI.AccessPoint), IntCell(0), Str(TXT.Network), Str(TXT.AP)),
     \* critical, resolved after 25 hours
     Incident(Str(TXT.INC002), Str(TXT.ShortBad), Str(TXT.Laptop), Str(PR.Critical),
              Str(ST.Resolved), DateText(0), DateText(Hours(25)),
              Str(CI.Printer), IntCell(4), Str(TXT.Network), Str(TXT.RTR)),
     \* critical, resolved after exactly 4 hours
     Incident(Str(TXT.INC003), Str(TXT.DnsShort), Str(TXT.DnsDesc), Str(PR.Critical),
              Str(ST.Closed), DateText(Days(1)), DateText(Days(1) + Hours(4)),
              Str(CI.DnsServer), IntCell(2), Str(TXT.Network), Str(TXT.RTR)),
     \* a priority that is no key of the SLA rules, resolved one second after 72 hours
     Incident(Str(TXT.INC001), Str(TXT.VpnShort), Str(TXT.VpnDesc), Str(PR.P1),
              Str(ST.AwaitingVendor), DateText(Days(2)), DateText(Days(5) + 1),
              Str(CI.VpnGateway), IntCell(6), Str(TXT.Network), Str(TXT.AP)),
     \* on hold, active for exactly 30 days at Now0
     Incident(Str(TXT.INC002), Str(TXT.ApShort), Str(TXT.WifiDesc), Str(PR.Low),
              Str(ST.OnHold), DateText(Now0 - Days(30)), Str(STR.empty),
              Str(CI.WirelessController), NaN, Str(TXT.Network), Str(TXT.AP)),
     \* active, with an opened text that is no date
     Incident(Str(TXT.INC003), Str(TXT.VpnShort), NaN, Str(PR.Moderate),
              Str(ST.New), Str(STR.empty), Str(STR.empty),
              Str(CI.Router), IntCell(1), Str(TXT.Network), Str(TXT.RTR)) >>

\* the three incidents of the SLA example: critical and moderate resolved
\* after 10 hours, and one in progress
ExampleIncidents ==
  << Incident(Str(TXT.INC001), Str(TXT.WifiShort), Str(TXT.WifiDesc), Str(PR.Critical),
              Str(ST.Resolved), DateText(0), DateText(Hours(10)),
              Str(CI.AccessPoint), IntCell(0), Str(TXT.Network), Str(TXT.AP)),
     Incident(Str(TXT.INC002), Str(TXT.VpnShort), Str(TXT.VpnDesc), Str(PR.Moderate),
              Str(ST.Resolved), DateText(Days(1)), DateText(Days(1) + Hours(10)),
              Str(CI.VpnGateway), IntCell(1), Str(TXT.Network), Str(TXT.RTR)),
     Incident(Str(TXT.INC003), Str(TXT.DnsShort), Str(TXT.DnsDesc), Str(PR.High),
              Str(ST.InProgress), DateText(Days(2)), Str(STR.empty),
              Str(CI.DnsServer), IntCell(2), Str(TXT.Network), Str(TXT.RTR)) >>

\* an incident with a priority written in lower case and a text with the
\* keywords 'application' and 'access denied', resolved after 10 hours
ExtraIncident ==
  Incident(Str(TXT.INC001), Str(TXT.AppShort), Str(TXT.Laptop), Str(PR.CriticalLower),
           Str(ST.Resolved), DateText(0), DateText(Hours(10)),
           Str(CI.Router), IntCell(0), Str(TXT.Network), Str(TXT.RTR))

\* which attribute of an incident a column of an export carries
FieldOf(c) ==
  CASE c \in {"incident_state", "state"} -> "state"
    [] c \in {"opened", "opened_at", "openedDate"} -> "opened"
    [] c \in {"resolved", "resolved_at", "u_resolved", "resolvedDate"} -> "resolved"
    [] c \in {"u_ci_type", "ci_type"} -> "ci_type"
    [] OTHER -> c

\* the test fixture's columns
TestColumns ==
  <<"number", "short_description", "description", "priority", "incident_state",
    "opened", "resolved", "ci_type", "reassignment_count">>

\* an export that already uses the canonical names
CanonicalColumns ==
  <<"number", "short_description", "description", "priority", "state", "openedDate",
    "resolvedDate", "ci_type", "reassignment_count", "assignment_group", "cmdb_ci">>

Schemas ==
  << TestColumns,
     CanonicalColumns,
     <<"number", "short_description", "state", "opened", "resolved", "reassignment_count">>,
     <<"number", "short_description", "priority", "state">> >>

MakeTable(cols, incidents) ==
  Table(cols, [r \in 1..Len(incidents) |->
                 [i \in 1..Len(cols) |-> incidents[r][FieldOf(cols[i])]]])

\* the stages and the aggregators treat the rows alike, so the lists are
\* taken in non-decreasing order of the incidents' positions
IncidentLists ==
  {l \in UNION {[1..n -> 1..Len(SampleIncidents)] : n \in 1..MaxRows} :
     \A i, j \in 1..Len(l) : i < j => l[i] <= l[j]}

Inputs ==
  {MakeTable(Schemas[s], [r \in 1..Len(l) |-> SampleIncidents[l[r]]]) :
     s \in 1..Len(Schemas), l \in IncidentLists}
  \cup {MakeTable(TestColumns, ExampleIncidents),
        MakeTable(TestColumns, <<ExtraIncident>>), EmptyTable,
        \* an export with its header and no incident
        MakeTable(TestColumns, <<>>)}

\* the selector lists callers pass
SelectorLists ==
  { None,
    <<"all">>,
    <<"normalize", "dates", "status">>,
    <<"status", "dates", "normalize", "status">>,
    <<"dates", "status", "durations">>,
    <<"normalize", "status", "durations">>,
    <<"normalize", "dates", "status", "sla">>,
    <<"normalize", "dates", "durations">>,
    <<"all", "temporal">>,
    <<"normalize", "dates", "status", "categorization", "durations", "sla", "impact", "temporal">> }

----------------------------------------------------------------------------
(* The program: a caller holds a table df, calls the pipeline on it at the *)
(* wall-clock time now, and may go on with the table a call returned.      *)

Call(op, sel, arg) == [op |-> op, sel |-> sel, arg |-> arg]

Returned(o, m) ==
  [err |-> o.err, t |-> IF o.err = "" THEN o.t ELSE EmptyTable, m |-> m]

NoReturn == [err |-> "", t |-> EmptyTable, m |-> NoMetrics]

Init ==
  /\ df \in Inputs
  /\ call = Call("none", None, 0)
  /\ ret = NoReturn
  /\ now = Now0
  /\ enriched = "raw"
  /\ runs = 0
  /\ config_rules = ConfigCategorizationRules

\* time passes
Tick ==
  /\ call.op = "none"
  /\ now < Now0 + MaxTicks
  /\ now' = now + 1
  /\ UNCHANGED <<df, call, ret, enriched, runs, config_rules>>

\* ret = transform_incidents(df, transformations)
TransformIncidents ==
  \E transformations \in SelectorLists :
    /\ call.op = "none"
    /\ enriched = "raw" \/ transformations = None
    /\ LET o == transform_incidents(df, transformations, now, config_rules)
       IN /\ ret' = Returned(o, NoMetrics)
          /\ df' = CallerTable(df, o)
    /\ call' = Call("transform_incidents", transformations, now)
    /\ UNCHANGED <<now, enriched, runs, config_rules>>

\* df = ret : the caller goes on with the table the default pipeline returned
Adopt ==
  /\ call.op = "transform_incidents"
  /\ call.sel = None
  /\ ret.err = ""
  /\ runs < MaxRuns
  /\ df' = ret.t
  /\ enriched' = "full"
  /\ runs' = runs + 1
  /\ call' = Call("none", None, 0)
  /\ ret' = NoReturn
  /\ UNCHANGED <<now, config_rules>>

\* the caller drops the value the last call returned
Discard ==
  /\ call.op # "none"
  /\ call' = Call("none", None, 0)
  /\ ret' = NoReturn
  /\ UNCHANGED <<df, now, enriched, runs, config_rules>>

\* sla_rules=None, or the rules of the test fixture
SlaRulesArg(given) == IF given = "None" THEN BuiltinSlaRules ELSE TestSlaRules

\* calculate_sla_breach(df, sla_rules) called on an enriched table: the stage
\* works on the caller's own table
CalculateSlaBreach ==
  \E given \in {"None", "test"} :
    /\ call.op = "none"
    /\ enriched = "full"
    /\ LET o == calculate_sla_breach(Outcome("", "caller", df), SlaRulesArg(given))
       IN /\ ret' = Returned(o, NoMetrics)
          /\ df' = CallerTable(df, o)
    /\ call' = Call("calculate_sla_breach", <<given>>, now)
    /\ enriched' = "partial"
    /\ UNCHANGED <<now, runs, config_rules>>

Next == Tick \/ TransformIncidents \/ Adopt \/ Discard \/ CalculateSlaBreach

Spec == Init /\ [][Next]_vars

----------------------------------------------------------------------------
(* The aggregators, called on raw tables and on tables the pipeline has    *)
(* enriched at Now0.                                                       *)

MetricSelectorLists ==
  { None,
    <<"normalize", "dates", "status">>,
    <<"normalize", "dates", "status", "categorization", "durations">> }

InitMetrics ==
  /\ \E d \in Inputs :
       \/ df = d /\ enriched = "raw"
       \/ \E sel \in MetricSelectorLists :
            LET o == transform_incidents(d, sel, Now0, ConfigCategorizationRules)
            IN /\ o.err = ""
               /\ ~IsEmpty(d)
               /\ df = o.t
               /\ enriched = IF sel = None THEN "full" ELSE "partial"
  /\ call = Call("none", None, 0)
  /\ ret = NoReturn
  /\ now = Now0
  /\ runs = 0
  /\ config_rules = ConfigCategorizationRules

Metrics(m) == [err |-> "", t |-> EmptyTable, m |-> m]

CalculateSlaMetrics ==
  /\ call.op = "none"
  /\ ret' = Metrics(calculate_sla_metrics(df))
  /\ call' = Call("calculate_sla_metrics", None, 0)
  /\ UNCHANGED <<df, now, enriched, runs, config_rules>>

AnalyzeResolutionTimes ==
  \E by_priority, by_category \in BOOLEAN :
    /\ call.op = "none"
    /\ ret' = Metrics(analyze_resolution_times(df, by_priority, by_category))
    /\ call' = Call("analyze_resolution_times", None, 0)
    /\ UNCHANGED <<df, now, enriched, runs, config_rules>>

\* snapshot_date is datetime.now() or a date the caller gives
CalculateBacklogMetrics ==
  \E snapshot_date \in {now + k : k \in 0..MaxTicks} :
    /\ call.op = "none"
    /\ LET m == calculate_backlog_metrics(df, snapshot_date)
       IN ret' = [err |-> m.err, t |-> EmptyTable, m |-> m]
    /\ call' = Call("calculate_backlog_metrics", None, snapshot_date)
    /\ UNCHANGED <<df, now, enriched, runs, config_rules>>

ReassignmentThresholds == {2, 3, 5}

AnalyzeReassignments ==
  \E threshold \in ReassignmentThresholds :
    /\ call.op = "none"
    /\ ret' = Returned(analyze_reassignments(df, threshold), NoMetrics)
    /\ call' = Call("analyze_reassignments", None, threshold)
    /\ UNCHANGED <<df, now, enriched, runs, config_rules>>

\* quality_rules=None, or rules a caller passes: a short description of 5
\* characters is long enough, one reassignment and 1000 hours on hold are
\* allowed
QualityRulesArg(given) ==
  IF given = "None" THEN DefaultQualityRules
  ELSE [on_hold_threshold_hours |-> 1000, min_description_length |-> 5,
        max_reassignment_threshold |-> 1]

CheckIncidentQuality ==
  \E given \in {"None", "custom"} :
    /\ call.op = "none"
    /\ ret' = Returned(check_incident_quality(df, QualityRulesArg(given)), NoMetrics)
    /\ call' = Call("check_incident_quality", <<given>>, 0)
    /\ UNCHANGED <<df, now, enriched, runs, config_rules>>

FindRecurringIssues ==
  \E min_occurrences \in 1..3 :
    \E recurring \in RecurringLists(df, min_occurrences) :
      /\ call.op = "none"
      /\ ret' = Metrics([kind |-> "recurring", recurring |-> recurring])
      /\ call' = Call("find_recurring_issues", None, min_occurrences)
      /\ UNCHANGED <<df, now, enriched, runs, config_rules>>

\* df = ret : the caller goes on with the table check_incident_quality returned
AdoptQuality ==
  /\ call.op = "check_incident_quality"
  /\ ret.err = ""
  /\ runs < MaxRuns
  /\ df' = ret.t
  /\ runs' = runs + 1
  /\ call' = Call("none", None, 0)
  /\ ret' = NoReturn
  /\ UNCHANGED <<now, enriched, config_rules>>

NextMetrics ==
  \/ CalculateSlaMetrics
  \/ AnalyzeResolutionTimes
  \/ CalculateBacklogMetrics
  \/ AnalyzeReassignments
  \/ CheckIncidentQuality
  \/ FindRecurringIssues
  \/ AdoptQuality
  \/ Discard

SpecMetrics == InitMetrics /\ [][NextMetrics]_vars

----------------------------------------------------------------------------
(* add_categorization called with rule lists of every order, on short      *)
(* texts over a small alphabet                                             *)

MaxRules == 2

RuleCategories == {<<"X">>, <<"Y">>, <<"Z">>}

RuleKeywords ==
  { << <<"a">> >>,
    << <<"b">> >>,
    << <<"a", "b">> >>,
    << <<"c">>, <<"b", " ", "a">> >>,
    << <<"A">> >> }

\* the rules dict: an ordered list of distinct categories, each with its keywords
RuleLists ==
  {l \in UNION {[1..n -> [category : RuleCategories, keywords : RuleKeywords]] :
                  n \in 0..MaxRules} :
     \A i, j \in 1..Len(l) : i # j => l[i].category # l[j].category}

ShortTexts == {<<"a">>, <<"B">>, <<"A", "b">>, <<"c", "b">>, <<>>}

LongTexts == {Str(<<"a">>), Str(<<"b">>), Str(<<"A", " ", "c">>), NaN}

TextTables ==
  {Table(<<"short_description", "description">>, << <<Str(s), d>> >>) :
     s \in ShortTexts, d \in LongTexts}
  \cup {Table(<<"short_description">>, << <<Str(s)>> >>) : s \in ShortTexts}
  \cup {Table(<<"number", "description">>, << <<Str(TXT.INC001), d>> >>) : d \in LongTexts}

InitCategorize ==
  /\ \/ df \in TextTables /\ config_rules \in RuleLists
     \/ /\ df \in {MakeTable(TestColumns, ExampleIncidents),
                   MakeTable(TestColumns, <<ExtraIncident>>),
                   MakeTable(<<"short_description">>, <<SampleIncidents[5]>>)}
        /\ config_rules \in {BuiltinCategorizationRules, ConfigCategorizationRules}
  /\ call = Call("none", None, 0)
  /\ ret = NoReturn
  /\ now = Now0
  /\ enriched = "raw"
  /\ runs = 0

\* add_categorization(df, rules): the stage works on the caller's own table
AddCategorization ==
  /\ call.op = "none"
  /\ enriched = "raw"
  /\ LET o == add_categorization(Outcome("", "caller", df), config_rules)
     IN /\ ret' = Returned(o, NoMetrics)
        /\ df' = CallerTable(df, o)
  /\ call' = Call("add_categorization", None, 0)
  /\ enriched' = "partial"
  /\ UNCHANGED <<now, runs, config_rules>>

NextCategorize == AddCategorization \/ Discard

SpecCategorize == InitCategorize /\ [][NextCategorize]_vars

----------------------------------------------------------------------------
(* The stage functions called one by one, as the tests call them: the      *)
(* caller passes its table df and may go on with the table returned.       *)

\* the columns of the records generate_sample_data makes that the stages read
LoaderColumns ==
  <<"number", "short_description", "description", "priority", "state",
    "incident_state", "assignment_group", "opened_at", "opened", "resolved_at",
    "resolved", "u_resolved", "ci_type", "u_ci_type", "cmdb_ci", "reassignment_count">>

\* the stage functions, in the order the pipeline and the tests call them
StageFunctions ==
  <<"normalize_columns", "parse_dates", "add_status_fields", "add_categorization",
    "calculate_durations", "calculate_sla_breach", "estimate_user_impact",
    "add_temporal_fields">>

\* f(df) with the optional arguments left out
StageCall(f, o, current_time) ==
  CASE f = "normalize_columns"    -> normalize_columns(o)
    [] f = "parse_dates"          -> parse_dates(o)
    [] f = "add_status_fields"    -> add_status_fields(o)
    [] f = "add_categorization"   -> add_categorization(o, BuiltinCategorizationRules)
    [] f = "calculate_durations"  -> calculate_durations(o, current_time)
    [] f = "calculate_sla_breach" -> calculate_sla_breach(o, BuiltinSlaRules)
    [] f = "estimate_user_impact" -> estimate_user_impact(o)
    [] f = "add_temporal_fields"  -> add_temporal_fields(o)

InitStages ==
  /\ df \in {MakeTable(cols, [r \in 1..Len(l) |-> SampleIncidents[l[r]]]) :
              cols \in {Schemas[s] : s \in 1..Len(Schemas)} \cup {LoaderColumns},
              l \in IncidentLists}
  /\ call = Call("none", None, 0)
  /\ ret = NoReturn
  /\ now = Now0
  /\ enriched = "raw"
  /\ runs = 0
  /\ config_rules = ConfigCategorizationRules

\* ret = f(df): the first call is of any stage, a later one of the stage
\* that follows the last one called; runs is the index of the last stage
CallStage ==
  \E i \in 1..Len(StageFunctions) :
    /\ call.op = "none"
    /\ runs = 0 \/ i = runs + 1
    /\ LET o == StageCall(StageFunctions[i], Outcome("", "caller", df), now)
       IN /\ ret' = Returned(o, NoMetrics)
          /\ df' = CallerTable(df, o)
    /\ call' = Call(StageFunctions[i], None, now)
    /\ UNCHANGED <<now, enriched, runs, config_rules>>

\* df = f(df), or f(df) alone: the caller goes on with the table the stage
\* returned, or drops the returned value and keeps its own table
ReturnStage ==
  \E i \in 1..Len(StageFunctions), rebind \in BOOLEAN :
    /\ call.op = StageFunctions[i]
    /\ rebind => ret.err = ""
    /\ df' = IF rebind THEN ret.t ELSE df
    /\ runs' = i
    /\ enriched' = "partial"
    /\ call' = Call("none", None, 0)
    /\ ret' = NoReturn
    /\ UNCHANGED <<now, config_rules>>

NextStages == CallStage \/ ReturnStage

SpecStages == InitStages /\ [][NextStages]_vars

----------------------------------------------------------------------------
(* Properties of the pipeline, checked under Spec                          *)

DerivedColumns ==
  <<"isActive", "isResolved", "isHighImpact", "isCritical", "patternCategory",
    "resolutionTimeHrs", "resolutionTimeDays", "ageHrs", "ageDays", "slaBreach",
    "slaMarginHrs", "userImpactEstimate">>

\* the default pipeline has just returned
DefaultRunReturned ==
  call.op = "transform_incidents" /\ call.sel = None /\ ret.err = ""

\* the stage `name` ran in the transform_incidents call that has just returned
StageRan(name) ==
  call.op = "transform_incidents" /\ ret.err = "" /\ ~IsEmpty(df)
  /\ InList(name, Effective(call.sel))

\* C1: idempotence of the pipeline.  When the default pipeline is run on the
\* table a previous default run returned (df), the table it returns holds the
\* same value as df in every derived column, whatever time has passed
\* between the two runs.
C1_Idempotent ==
  (DefaultRunReturned /\ enriched = "full") =>
    \A i \in 1..Len(DerivedColumns) : \A r \in 1..NRows(df) :
      Get(ret.t, r, DerivedColumns[i]) = Get(df, r, DerivedColumns[i])

\* the SLA stage has just evaluated the returned table, with these rules
SlaEvaluated ==
  /\ ret.err = ""
  /\ \/ call.op = "calculate_sla_breach"
     \/ StageRan("sla")

SlaRulesUsed ==
  IF call.op = "calculate_sla_breach" THEN SlaRulesArg(call.sel[1]) ELSE ConfigSlaRules

\* the hours the mapping gives the priority text p, 72 when p is no key of it
HoursOfKey(sla_rules, p) ==
  LET keys == {i \in 1..Len(sla_rules) : sla_rules[i].priority = p}
  IN IF keys = {} THEN 72 ELSE sla_rules[CHOOSE i \in keys : TRUE].hours

\* the threshold of row r as C2 states it: that of the row's priority, 72
\* when the row has no priority that is a key of the mapping
StatedThreshold(t, r, sla_rules) ==
  IF HasCol(t, "priority") /\ Get(t, r, "priority").k = "str"
    THEN HoursOfKey(sla_rules, Get(t, r, "priority").s)
    ELSE 72

\* the threshold of row r as amended: a table without a priority column is
\* evaluated as priority '4 - Low'
AmendedThreshold(t, r, sla_rules) ==
  IF HasCol(t, "priority") THEN StatedThreshold(t, r, sla_rules)
  ELSE HoursOfKey(sla_rules, PR.Low)

SlaRowAgrees(t, r, threshold) ==
  LET rt == Get(t, r, "resolutionTimeHrs")
  IN /\ IsTrue(Get(t, r, "slaBreach")) <=> (rt.k = "float" /\ rt.n > threshold * rt.d)
     /\ rt.k # "float" => (Get(t, r, "slaBreach") = BoolCell(FALSE)
                           /\ Get(t, r, "slaMarginHrs") = NaN)

\* C2 as stated: slaBreach is true exactly when the resolution time is
\* defined and strictly greater than the threshold of the row's priority,
\* 72 hours when the priority is no key of the mapping; a row without
\* resolution time has slaBreach false and no margin.
C2_SlaBreachAsStated ==
  SlaEvaluated =>
    \A r \in 1..NRows(ret.t) :
      SlaRowAgrees(ret.t, r, StatedThreshold(ret.t, r, SlaRulesUsed))

\* C2 amended: as stated for a table that has a priority column; the rows of
\* a table without a priority column are evaluated against the threshold of
\* '4 - Low' (120 hours by default, 72 when the mapping has no such key).
C2_SlaBreachAmended ==
  SlaEvaluated =>
    \A r \in 1..NRows(ret.t) :
      SlaRowAgrees(ret.t, r, AmendedThreshold(ret.t, r, SlaRulesUsed))

\* a breached row, and a row resolved in exactly its threshold and not breached
C2_Witness ==
  /\ SlaEvaluated
  /\ \E r \in 1..NRows(ret.t) : IsTrue(Get(ret.t, r, "slaBreach"))
  /\ \E r \in 1..NRows(ret.t) :
       LET rt == Get(ret.t, r, "resolutionTimeHrs")
       IN /\ rt.k = "float"
          /\ rt.n = AmendedThreshold(ret.t, r, SlaRulesUsed) * rt.d
          /\ ~IsTrue(Get(ret.t, r, "slaBreach"))

\* C6: transform_incidents never mutates its input.  Every step that calls
\* transform_incidents, with any selector list and whether it returns or
\* raises, leaves the caller's table with the columns and cells it had.
C6_InputNotMutated ==
  [][(call.op = "none" /\ call'.op = "transform_incidents") => df' = df]_vars

\* a call on a non-empty table returned a table that differs from the input
C6_Witness ==
  /\ call.op = "transform_incidents"
  /\ ret.err = ""
  /\ ~IsEmpty(df)
  /\ ret.t # df
  /\ \A i \in 1..Len(df.cols) : df.cols[i] \notin RawColumns

\* C7: the pipeline never raises on missing optional data.  Every call of
\* transform_incidents on a non-empty table, with any selector list,
\* returns a table.
C7_NeverRaises ==
  (call.op = "transform_incidents" /\ ~IsEmpty(df)) => ret.err = ""

\* C10: resolution time.  After the durations stage resolutionTimeHrs is
\* defined exactly for the rows that have both openedDate and resolvedDate,
\* equals their difference in hours, and resolutionTimeDays is that value
\* divided by 24; a row missing a timestamp has both absent, never zero.
C10_ResolutionTime ==
  StageRan("durations") =>
    \A r \in 1..NRows(ret.t) :
      LET both == /\ HasCol(ret.t, "openedDate") /\ HasCol(ret.t, "resolvedDate")
                  /\ Get(ret.t, r, "openedDate").k = "dt"
                  /\ Get(ret.t, r, "resolvedDate").k = "dt"
          hrs  == Get(ret.t, r, "resolutionTimeHrs")
          days == Get(ret.t, r, "resolutionTimeDays")
      IN IF both
           THEN /\ hrs.k = "float" /\ days.k = "float"
                \* hrs = (resolved - opened) / 3600 and days = hrs / 24, as
                \* equalities of fractions with the common factors removed
                /\ hrs.d % 3600 = 0 /\ days.d % hrs.d = 0
                /\ hrs.n = (Get(ret.t, r, "resolvedDate").n - Get(ret.t, r, "openedDate").n)
                             * (hrs.d \div 3600)
                /\ days.n * 24 = hrs.n * (days.d \div hrs.d)
           ELSE hrs = NaN /\ days = NaN

\* one row with a resolution time that is not zero and one row without
C10_Witness ==
  /\ StageRan("durations")
  /\ \E r \in 1..NRows(ret.t) :
       Get(ret.t, r, "resolutionTimeHrs").k = "float" /\ Get(ret.t, r, "resolutionTimeHrs").n > 0
  /\ \E r \in 1..NRows(ret.t) : Get(ret.t, r, "resolutionTimeHrs") = NaN

----------------------------------------------------------------------------
(* Properties of the aggregators, checked under SpecMetrics                *)

\* the rows of the analysed table that are active
ActiveRows == {r \in 1..NRows(df) : HasCol(df, "isActive") /\ IsTrue(Get(df, r, "isActive"))}

\* C3: backlog age buckets partition the active set.  In every result of
\* calculate_backlog_metrics each active row is counted in exactly one of
\* the five by_age buckets, so the five counts sum to total_backlog, the
\* number of active rows.
C3_BucketsPartition ==
  (call.op = "calculate_backlog_metrics" /\ ret.err = "") =>
    LET by_age == ret.m.by_age
    IN /\ ret.m.total_backlog = Cardinality(ActiveRows)
       /\ by_age.less_than_24h + by_age.h24_to_3days + by_age.d3_to_1week
            + by_age.w1_to_1month + by_age.more_than_1month = ret.m.total_backlog

\* the rows of the analysed table with a defined resolution time
ResolvedRows ==
  {r \in 1..NRows(df) :
     HasCol(df, "resolutionTimeHrs") /\ Get(df, r, "resolutionTimeHrs").k = "float"}

BreachedRows == {r \in ResolvedRows : Get(df, r, "slaBreach") = BoolCell(TRUE)}

\* the three-incident example after the full pipeline
ExampleEnriched ==
  transform_incidents(MakeTable(TestColumns, ExampleIncidents), None, Now0,
                      ConfigCategorizationRules).t

\* pct (in hundredths) is 100 * num / den to the nearest hundredth
NearestHundredth(pct, num, den) ==
  LET diff == 10000 * num - pct * den
  IN 2 * (IF diff < 0 THEN -diff ELSE diff) <= den

\* C5: SLA metrics.  For a table enriched by the full pipeline,
\* calculate_sla_metrics returns total_resolved = the number of rows with a
\* defined resolutionTimeHrs, sla_breached = the number of those with
\* slaBreach true, sla_met = the number of those with slaBreach false and
\* breach_rate_pct = 100 * sla_breached / total_resolved rounded to two
\* decimals (0.0 when nothing is resolved); for the three-incident example
\* it returns total_resolved = 2, sla_breached = 1, breach_rate_pct = 50.0.
C5_SlaMetrics ==
  (call.op = "calculate_sla_metrics" /\ enriched = "full") =>
    /\ ret.err = ""
    /\ ret.m.total_resolved = Cardinality(ResolvedRows)
    /\ ret.m.sla_breached = Cardinality(BreachedRows)
    /\ ret.m.sla_met = Cardinality(ResolvedRows \ BreachedRows)
    /\ IF ResolvedRows = {} THEN ret.m.breach_rate_pct = 0
       ELSE NearestHundredth(ret.m.breach_rate_pct, Cardinality(BreachedRows),
                             Cardinality(ResolvedRows))
    /\ df = ExampleEnriched =>
         /\ ret.m.total_resolved = 2
         /\ ret.m.sla_breached = 1
         /\ ret.m.breach_rate_pct = 5000

\* the metrics of the three-incident example have been computed
C5_Witness ==
  /\ call.op = "calculate_sla_metrics"
  /\ enriched = "full"
  /\ df = ExampleEnriched
  /\ Cardinality(ResolvedRows) = 2 /\ NRows(df) = 3
  /\ ret.m.breach_rate_pct = 5000

AggregatorOps ==
  {"calculate_sla_metrics", "analyze_resolution_times", "calculate_backlog_metrics",
   "analyze_reassignments", "check_incident_quality", "find_recurring_issues"}

\* C8: aggregators degrade instead of raising.  For every input table,
\* whatever columns are missing, each of the six aggregators returns a
\* result without raising, and returns its zeroed or empty result when the
\* table is empty.
C8_AggregatorsNeverRaise ==
  call.op \in AggregatorOps =>
    /\ ret.err = ""
    /\ IsEmpty(df) =>
         /\ NRows(ret.t) = 0
         /\ call.op = "calculate_sla_metrics" => ret.m = ZeroSlaMetrics
         /\ call.op = "calculate_backlog_metrics" => ret.m.total_backlog = 0
         /\ call.op = "find_recurring_issues" => ret.m.recurring = <<>>

\* the four checks of C9 on row r of the analysed table, as 0 or 1
PriorityMismatchHolds(r) ==
  /\ HasCol(df, "priority") /\ HasCol(df, "resolutionTimeHrs")
  /\ Contains(AsStr(Get(df, r, "priority")), PR.Critical)
  /\ Get(df, r, "resolutionTimeHrs").k = "float"
  /\ Get(df, r, "resolutionTimeHrs").n > 24 * Get(df, r, "resolutionTimeHrs").d

OnHoldAbuseHolds(r) ==
  /\ HasCol(df, "state") /\ HasCol(df, "ageHrs")
  /\ Get(df, r, "state") = Str(ST.OnHold)
  /\ Get(df, r, "ageHrs").k = "float"
  /\ Get(df, r, "ageHrs").n > 72 * Get(df, r, "ageHrs").d

PoorDescriptionHolds(r) ==
  HasCol(df, "short_description") /\ Len(AsStr(Get(df, r, "short_description"))) < 20

ExcessiveReassignmentHolds(r) ==
  /\ HasCol(df, "reassignment_count")
  /\ Get(df, r, "reassignment_count").k \in {"int", "float"}
  /\ Get(df, r, "reassignment_count").n > 3 * Get(df, r, "reassignment_count").d

ChecksHolding(r) ==
  (IF PriorityMismatchHolds(r) THEN 1 ELSE 0) + (IF OnHoldAbuseHolds(r) THEN 1 ELSE 0)
  + (IF PoorDescriptionHolds(r) THEN 1 ELSE 0)
  + (IF ExcessiveReassignmentHolds(r) THEN 1 ELSE 0)

\* C9: quality issue count.  For every input table and every row, the
\* quality_issues_count check_incident_quality returns is the number of the
\* four checks that hold for the row, and so lies between 0 and 4.
C9_QualityIssuesCount ==
  (call.op = "check_incident_quality" /\ ret.err = "") =>
    \A r \in 1..NRows(df) :
      LET count == Get(ret.t, r, "quality_issues_count")
      IN /\ count.n = ChecksHolding(r) * count.d
         /\ 0 <= count.n /\ count.n <= 4 * count.d

----------------------------------------------------------------------------
(* Properties of categorization, checked under SpecCategorize              *)

\* the text the rules are matched against: the lower-cased concatenation of
\* short description and description of row r of the analysed table
MatchedText(r) == IncidentText(df, r)

\* the positions of the rules with a keyword contained in the text of row r
MatchingRules(r) ==
  {i \in 1..Len(config_rules) :
     \E k \in 1..Len(config_rules[i].keywords) :
       Contains(MatchedText(r), config_rules[i].keywords[k])}

\* C4: categorization is first-match-wins.  For every ordered rule list and
\* every incident, patternCategory is the first category in configured order
\* with a keyword contained in the lower-cased concatenation of short
\* description and description, even when a later category matches too, and
\* 'Other' when no category matches; the text 'WiFi access point down in
\* building A' is 'WiFi/Wireless' under the default rules in their order.
C4_FirstMatchWins ==
  (call.op = "add_categorization" /\ ret.err = "") =>
    \A r \in 1..NRows(ret.t) :
      LET category == Get(ret.t, r, "patternCategory")
          matching == MatchingRules(r)
      IN /\ category.k = "str"
         /\ IF matching = {} THEN category.s = CAT.Other
            ELSE \E i \in matching :
                   /\ \A j \in matching : i <= j
                   /\ category.s = config_rules[i].category
         /\ (/\ config_rules \in {BuiltinCategorizationRules, ConfigCategorizationRules}
             /\ HasCol(ret.t, "short_description")
             /\ Get(ret.t, r, "short_description") = Str(TXT.ApShort))
              => category.s = CAT.WiFi

\* two categories match one incident and the earlier one is its category
C4_Witness ==
  /\ call.op = "add_categorization"
  /\ ret.err = ""
  /\ \E r \in 1..NRows(ret.t) :
       \E i, j \in MatchingRules(r) :
         /\ i < j
         /\ config_rules[i].category # config_rules[j].category
         /\ Get(ret.t, r, "patternCategory") = Str(config_rules[i].category)

----------------------------------------------------------------------------
(* Properties of the stages, checked under Spec                            *)

\* the value of column c in row r of the returned table, NaN when the table
\* has no such column
Returned1(r, c) == IF HasCol(ret.t, c) THEN Get(ret.t, r, c) ELSE NaN

\* C11: age is defined only for active rows.  In every table returned by a
\* run that includes the durations stage, on a raw table or on a table a
\* previous run returned, ageHrs and ageDays are defined only for the rows
\* whose isActive is true; a row whose isActive is false, or a row of a
\* table the status stage did not make isActive for, has both absent.
C11_AgeOnlyForActive ==
  StageRan("durations") =>
    \A r \in 1..NRows(ret.t) :
      (~IsNa(Returned1(r, "ageHrs")) \/ ~IsNa(Returned1(r, "ageDays")))
        => IsTrue(Returned1(r, "isActive"))

\* an active row with its age next to an inactive row that has an opened
\* timestamp and no age, in the second run over a table
C11_Witness ==
  /\ StageRan("durations")
  /\ enriched = "full"
  /\ \E r \in 1..NRows(ret.t) :
       IsTrue(Returned1(r, "isActive")) /\ Returned1(r, "ageHrs").k = "float"
  /\ \E r \in 1..NRows(ret.t) :
       /\ ~IsTrue(Returned1(r, "isActive"))
       /\ Returned1(r, "openedDate").k = "dt"
       /\ Returned1(r, "ageHrs") = NaN /\ Returned1(r, "ageDays") = NaN

\* the snapshot time the caller means every run to use
SuppliedSnapshot == Now0

\* C12: injectable snapshot time.  The caller supplies the snapshot time, so
\* every run that includes the durations stage gives each active row with an
\* opened timestamp the age at the supplied snapshot, whatever the wall
\* clock shows when the run executes.
C12_SnapshotInjectable ==
  StageRan("durations") =>
    \A r \in 1..NRows(ret.t) :
      (IsTrue(Returned1(r, "isActive")) /\ Returned1(r, "openedDate").k = "dt")
        => /\ Returned1(r, "ageHrs") = HoursBetween(Returned1(r, "openedDate"), Ts(SuppliedSnapshot))
           /\ Returned1(r, "ageDays")
                = DivCell(HoursBetween(Returned1(r, "openedDate"), Ts(SuppliedSnapshot)), 24)

\* C13: lifecycle flags are mutually exclusive.  For every row and every
\* state value the status stage never sets both isActive and isResolved to
\* true; they may both be false.
C13_FlagsExclusive ==
  StageRan("status") =>
    \A r \in 1..NRows(ret.t) :
      ~(IsTrue(Returned1(r, "isActive")) /\ IsTrue(Returned1(r, "isResolved")))

\* an active row, a resolved row or a row that is neither, each with one
\* flag at most
C13_Witness ==
  /\ StageRan("status")
  /\ \E r \in 1..NRows(ret.t) :
       Returned1(r, "isActive") = BoolCell(TRUE) /\ Returned1(r, "isResolved") = BoolCell(FALSE)
  /\ \E r \in 1..NRows(ret.t) :
       Returned1(r, "isActive") = BoolCell(FALSE) /\ Returned1(r, "isResolved") = BoolCell(TRUE)

\* the state text of row r is one of the texts of the list
StateAmong(r, states) ==
  /\ HasCol(ret.t, "state")
  /\ \E i \in 1..Len(states) : Get(ret.t, r, "state") = Str(states[i])

CiTypeText(r) == Lower(AsStr(IF HasCol(ret.t, "ci_type") THEN Get(ret.t, r, "ci_type")
                                                       ELSE Str(STR.empty)))

PriorityText(r) == AsStr(IF HasCol(ret.t, "priority") THEN Get(ret.t, r, "priority")
                                                     ELSE Str(STR.empty))

\* the base of C15 as stated: wireless is no keyword of the 50 class
StatedBase(ci_type) ==
  IF Contains(ci_type, KW.server) \/ Contains(ci_type, KW.firewall) THEN 100
  ELSE IF Contains(ci_type, KW.access_point) \/ Contains(ci_type, KW.wifi) THEN 50
  ELSE IF Contains(ci_type, KW.router) \/ Contains(ci_type, KW.switch) THEN 75
  ELSE IF Contains(ci_type, KW.printer) THEN 15
  ELSE 25

\* the base as amended: access point, wifi and wireless make the 50 class
AmendedBase(ci_type) ==
  IF Contains(ci_type, KW.server) \/ Contains(ci_type, KW.firewall) THEN 100
  ELSE IF \/ Contains(ci_type, KW.access_point) \/ Contains(ci_type, KW.wifi)
          \/ Contains(ci_type, <<"w", "i", "r", "e", "l", "e", "s", "s">>) THEN 50
  ELSE IF Contains(ci_type, KW.router) \/ Contains(ci_type, KW.switch) THEN 75
  ELSE IF Contains(ci_type, KW.printer) THEN 15
  ELSE 25

\* twice the factor of C15 as stated: 2.0 for '1 - Critical', 1.5 for
\* '2 - High', 0.5 for '4 - Low', 1.0 for any other priority
StatedFactor2(priority) ==
  IF Contains(priority, PR.Critical) THEN 4
  ELSE IF Contains(priority, PR.High) THEN 3
  ELSE IF Contains(priority, PR.Low) THEN 1
  ELSE 2

\* twice the factor as amended: 2.0 for every priority text with the digit 1
AmendedFactor2(priority) ==
  IF Contains(priority, <<"1">>) THEN 4
  ELSE IF Contains(priority, PR.High) THEN 3
  ELSE IF Contains(priority, PR.Low) THEN 1
  ELSE 2

\* every row has the estimate trunc(base * factor), a non-negative integer,
\* and rows with equal CI type and priority have equal estimates
ImpactAgrees(Base(_), Factor2(_)) ==
  /\ \A r \in 1..NRows(ret.t) :
       LET estimate == Returned1(r, "userImpactEstimate")
       IN /\ estimate.k = "int" /\ estimate.n >= 0
          /\ estimate.n = (Base(CiTypeText(r)) * Factor2(PriorityText(r))) \div 2
  /\ \A r1, r2 \in 1..NRows(ret.t) :
       (CiTypeText(r1) = CiTypeText(r2) /\ PriorityText(r1) = PriorityText(r2))
         => Returned1(r1, "userImpactEstimate") = Returned1(r2, "userImpactEstimate")

\* C15 as stated: userImpactEstimate = trunc(base * factor) with base 100
\* for server or firewall, else 50 for access point or wifi, else 75 for
\* router or switch, else 15 for printer, else 25, and factor 2.0 for
\* Critical, 1.5 for High, 0.5 for Low, 1.0 otherwise; a non-negative
\* integer, equal for rows with equal CI type and priority, on every run.
C15_ImpactAsStated ==
  StageRan("impact") => ImpactAgrees(StatedBase, StatedFactor2)

\* C15 amended: as stated, but a CI type that contains 'wireless' is in the
\* 50 class with access point and wifi, and the factor is 2.0 for every
\* priority text that contains the digit 1.
C15_ImpactAmended ==
  StageRan("impact") => ImpactAgrees(AmendedBase, AmendedFactor2)

\* a printer of critical priority (15 * 2.0) next to a wireless controller of
\* low priority (50 * 0.5)
C15_Witness ==
  /\ StageRan("impact")
  /\ \E r \in 1..NRows(ret.t) :
       /\ Returned1(r, "ci_type") = Str(CI.Printer)
       /\ Returned1(r, "userImpactEstimate") = IntCell(30)
  /\ \E r \in 1..NRows(ret.t) :
       /\ Returned1(r, "ci_type") = Str(CI.WirelessController)
       /\ Returned1(r, "priority") = Str(PR.Low)
       /\ Returned1(r, "userImpactEstimate") = IntCell(25)

CalendarColumns ==
  <<"week", "month", "quarter", "year", "dayOfWeek", "hourOfDay", "isBusinessHours">>

\* C16: calendar features are opt-in.  A run on a table with opened
\* timestamps adds the calendar columns whenever the selector list passed to
\* transform_incidents contains 'temporal', and only then; with no selector
\* list the seven stages normalize, dates, status, categorization,
\* durations, sla, impact run and the temporal stage does not.
C16_CalendarOptIn ==
  (call.op = "transform_incidents" /\ ret.err = "" /\ ~IsEmpty(df)
   /\ HasCol(ret.t, "openedDate")) =>
    /\ \A i \in 1..Len(CalendarColumns) :
         HasCol(ret.t, CalendarColumns[i]) <=> InList("temporal", call.sel)
    /\ call.sel = None =>
         \A i \in 1..Len(DerivedColumns) : HasCol(ret.t, DerivedColumns[i])

\* every field add_temporal_fields produces
TemporalColumns ==
  <<"week", "month", "monthName", "quarter", "year", "dayOfWeek", "dayOfWeekName",
    "hourOfDay", "isBusinessHours">>

\* C17: calendar fields are absent when the opened timestamp is absent.
\* After the temporal stage every row without openedDate has every field of
\* the stage absent, isBusinessHours included (not false, not zero); a row
\* with openedDate has isBusinessHours = (weekday < 5 and 9 <= hour < 17)
\* with Monday = 0.
C17_CalendarAbsent ==
  (StageRan("temporal") /\ HasCol(ret.t, "isBusinessHours")) =>
    \A r \in 1..NRows(ret.t) :
      IF Returned1(r, "openedDate").k = "dt"
        THEN LET t       == Returned1(r, "openedDate").n
                 weekday == (t \div 86400) % 7
                 hour    == (t % 86400) \div 3600
             IN Returned1(r, "isBusinessHours")
                  = BoolCell(weekday < 5 /\ 9 <= hour /\ hour < 17)
        ELSE \A i \in 1..Len(TemporalColumns) : IsNa(Returned1(r, TemporalColumns[i]))

----------------------------------------------------------------------------
(* Default categorization, checked under SpecCategorize                    *)

\* row r of the analysed table has these two texts
HasTexts(r, short, desc) ==
  /\ HasCol(df, "short_description") /\ HasCol(df, "description")
  /\ Get(df, r, "short_description") = Str(short)
  /\ Get(df, r, "description") = Str(desc)

\* C19: default categorization of topical text.  With the default rules
\* add_categorization gives 'WiFi/Wireless' to the incident about WiFi,
\* 'VPN/Remote Access' to the one about VPN and 'DNS/Resolution' to the one
\* with short description 'DNS resolution failure' and description 'DNS
\* server not resolving external domains'.
C19_TopicalText ==
  (call.op = "add_categorization" /\ ret.err = ""
   /\ config_rules = BuiltinCategorizationRules) =>
    \A r \in 1..NRows(ret.t) :
      /\ HasTexts(r, TXT.WifiShort, TXT.WifiDesc)
           => Get(ret.t, r, "patternCategory") = Str(CAT.WiFi)
      /\ HasTexts(r, TXT.VpnShort, TXT.VpnDesc)
           => Get(ret.t, r, "patternCategory") = Str(CAT.VPN)
      /\ HasTexts(r, TXT.DnsShort, TXT.DnsDesc)
           => Get(ret.t, r, "patternCategory") = Str(CAT.DNS)

----------------------------------------------------------------------------
(* Reassignment analysis, checked under SpecMetrics                        *)

\* the columns analyze_reassignments reads
ReadByReassignments ==
  <<"number", "short_description", "priority", "assignment_group", "reassignment_count">>

\* the rows of the analysed table whose count exceeds the threshold of the call
ExceedingRows ==
  {r \in 1..NRows(df) :
     /\ Get(df, r, "reassignment_count").k \in {"int", "float"}
     /\ Get(df, r, "reassignment_count").n > call.arg * Get(df, r, "reassignment_count").d}

\* the position in the analysed table of the k-th exceeding row
KthExceeding(k) ==
  CHOOSE r \in ExceedingRows : Cardinality({q \in ExceedingRows : q < r}) = k - 1

StatedSeverity(count) ==
  IF count > 5 THEN SEV.Critical
  ELSE IF count > 3 /\ count <= 5 THEN SEV.High
  ELSE SEV.Moderate

----------------------------------------------------------------------------
(* Recurring issues, checked under SpecMetrics                             *)

\* the groups of rows that agree on patternCategory and on ci_type
GroupsByCiType(d) ==
  {<<Get(d, r, "patternCategory").s, Get(d, r, "ci_type").s>> :
     r \in {q \in 1..NRows(d) : /\ Get(d, q, "patternCategory").k = "str"
                                /\ Get(d, q, "ci_type").k = "str"}}

GroupSizeByCiType(d, g) ==
  Cardinality({r \in 1..NRows(d) : /\ Get(d, r, "patternCategory") = Str(g[1])
                                   /\ Get(d, r, "ci_type") = Str(g[2])})

\* C21 as stated: find_recurring_issues groups the rows by the pair
\* (patternCategory, ci_type); it returns exactly the groups of at least
\* min_occurrences rows, each once with its exact number of rows as
\* 'occurrences', in non-increasing order of that number
C21_RecurringByCiType ==
  (call.op = "find_recurring_issues" /\ HasCol(df, "patternCategory")
                                     /\ HasCol(df, "ci_type")) =>
    LET recurring == ret.m.recurring
        n == Len(recurring)
    IN /\ {<<recurring[i].category, recurring[i].ci, recurring[i].occurrences>> :
             i \in 1..n}
          = {<<g[1], g[2], GroupSizeByCiType(df, g)>> :
               g \in {h \in GroupsByCiType(df) : GroupSizeByCiType(df, h) >= call.arg}}
       /\ \A i, j \in 1..n : i # j =>
            <<recurring[i].category, recurring[i].ci>>
              # <<recurring[j].category, recurring[j].ci>>
       /\ \A i, j \in 1..n : i < j => recurring[i].occurrences >= recurring[j].occurrences

----------------------------------------------------------------------------
(* Quality thresholds, checked under SpecMetrics                           *)

\* the three threshold checks of row r of the returned table, under rules q
ThresholdFlagsUnder(q, r) ==
  /\ Returned1(r, "quality_on_hold_abuse")
       = BoolCell(/\ HasCol(df, "state") /\ HasCol(df, "ageHrs")
                  /\ Get(df, r, "state") = Str(ST.OnHold)
                  /\ Exceeds(Get(df, r, "ageHrs"), q.on_hold_threshold_hours))
  /\ Returned1(r, "quality_poor_description")
       = BoolCell(/\ HasCol(df, "short_description")
                  /\ Len(AsStr(Get(df, r, "short_description")))
                       < q.min_description_length)
  /\ Returned1(r, "quality_excessive_reassignments")
       = BoolCell(/\ HasCol(df, "reassignment_count")
                  /\ Exceeds(Get(df, r, "reassignment_count"),
                             q.max_reassignment_threshold))

\* C22 as stated: the on-hold hours, the minimum description length and the
\* maximum reassignment count a caller passes as quality_rules are the
\* thresholds check_incident_quality flags the rows by, instead of the
\* defaults 72, 20 and 3
C22_QualityRulesUsed ==
  (call.op = "check_incident_quality" /\ ret.err = "") =>
    \A r \in 1..NRows(df) : ThresholdFlagsUnder(QualityRulesArg(call.sel[1]), r)

\* with no rules passed the defaults 72, 20 and 3 are the thresholds
C22_DefaultsUsed ==
  (call.op = "check_incident_quality" /\ ret.err = "" /\ call.sel = None) =>
    \A r \in 1..NRows(df) : ThresholdFlagsUnder(DefaultQualityRules, r)

----------------------------------------------------------------------------
(* Repeated quality checks, checked under SpecMetrics                      *)

QualityFlags ==
  {"quality_priority_mismatch", "quality_on_hold_abuse", "quality_poor_description",
   "quality_excessive_reassignments"}

\* the caller's table is one check_incident_quality returned
QualityChecked(t) == HasCol(t, "quality_issues_count")

\* C25 as stated: check_incident_quality applied to a table it returned
\* yields the same four flags and the same quality_issues_count on every row
C25_QualityIdempotent ==
  (call.op = "check_incident_quality" /\ ret.err = "" /\ QualityChecked(df)) =>
    \A r \in 1..NRows(df) :
      \A c \in QualityFlags \cup {"quality_issues_count"} :
        Returned1(r, c) = Get(df, r, c)

\* the four flags alone are the same on repeated application
C25_FlagsIdempotent ==
  (call.op = "check_incident_quality" /\ ret.err = "" /\ QualityChecked(df)) =>
    \A r \in 1..NRows(df) :
      \A c \in QualityFlags : Returned1(r, c) = Get(df, r, c)

----------------------------------------------------------------------------
(* Consistency of the SLA counts, checked under SpecMetrics                *)

\* C26 as stated: for every input table, one enriched without the 'sla'
\* stage included, calculate_sla_metrics returns sla_breached + sla_met =
\* total_resolved, and breached + met = total in every by_priority entry
C26_SlaCountsConsistent ==
  (call.op = "calculate_sla_metrics" /\ ret.err = "") =>
    /\ ret.m.sla_breached + ret.m.sla_met = ret.m.total_resolved
    /\ \A p \in DOMAIN ret.m.by_priority :
         ret.m.by_priority[p].breached + ret.m.by_priority[p].met
           = ret.m.by_priority[p].total

\* the counts are consistent on the tables that have a slaBreach column or
\* no resolutionTimeHrs column
C26_ConsistentWithSlaBreach ==
  (/\ call.op = "calculate_sla_metrics" /\ ret.err = ""
   /\ HasCol(df, "slaBreach") \/ ~HasCol(df, "resolutionTimeHrs")) =>
    /\ ret.m.sla_breached + ret.m.sla_met = ret.m.total_resolved
    /\ \A p \in DOMAIN ret.m.by_priority :
         ret.m.by_priority[p].breached + ret.m.by_priority[p].met
           = ret.m.by_priority[p].total

----------------------------------------------------------------------------
(* Properties of the stage functions, checked under SpecStages             *)

\* the canonical name the specification gives for a column name
StatedCanonical(c) ==
  IF c = "incident_state" THEN "state"
  ELSE IF c \in {"opened", "opened_at"} THEN "openedDate"
  ELSE IF c \in {"resolved", "resolved_at", "u_resolved"} THEN "resolvedDate"
  ELSE IF c = "u_ci_type" THEN "ci_type"
  ELSE c

\* C23: normalize_columns raises no error, whichever columns are missing;
\* the table it returns has the caller's rows with every cell unchanged and
\* as many columns, where each raw variant that is present carries its
\* canonical name and every other column its own name
C23_NormalizeFrame ==
  (call.op = "normalize_columns") =>
    /\ ret.err = ""
    /\ ret.t.rows = df.rows
    /\ Len(ret.t.cols) = Len(df.cols)
    /\ \A i \in 1..Len(df.cols) : ret.t.cols[i] = StatedCanonical(df.cols[i])

\* normalize_columns has renamed opened and resolved in a table of two rows
\* that has no priority, no description and no ci_type column
C23_Witness ==
  /\ call.op = "normalize_columns"
  /\ HasCol(df, "opened") /\ HasCol(df, "resolved")
  /\ ~HasCol(df, "priority") /\ ~HasCol(df, "description") /\ ~HasCol(df, "ci_type")
  /\ NRows(df) = 2
  /\ HasCol(ret.t, "openedDate") /\ HasCol(ret.t, "resolvedDate")
  /\ ~HasCol(ret.t, "opened")

\* the column names of t are pairwise distinct
DistinctNames(t) == \A i, j \in 1..Len(t.cols) : i # j => t.cols[i] # t.cols[j]

\* C24 as stated: for every table whose column names are pairwise distinct,
\* one that carries several raw variants of a field included, the table
\* normalize_columns returns has pairwise distinct column names
C24_CanonicalNamesUnique ==
  (call.op = "normalize_columns" /\ DistinctNames(df)) => DistinctNames(ret.t)

\* the names stay distinct on the tables that carry at most one variant of
\* each field
C24_UniqueForOneVariant ==
  (/\ call.op = "normalize_columns" /\ DistinctNames(df)
   /\ \A i, j \in 1..Len(df.cols) :
        i # j => StatedCanonical(df.cols[i]) # StatedCanonical(df.cols[j]))
    => DistinctNames(ret.t)

\* the stage functions the pipeline calls after normalize_columns
WorkingStages ==
  {"parse_dates", "add_status_fields", "add_categorization", "calculate_durations",
   "calculate_sla_breach", "estimate_user_impact", "add_temporal_fields"}

\* C27 as stated: a stage function called directly leaves the table the
\* caller passed unchanged, columns and cells
C27_StagesCopyOnWrite ==
  [][(call.op = "none" /\ call'.op \in WorkingStages) => df' = df]_vars

----------------------------------------------------------------------------
(* Agreement of the call sites, checked under Spec                         *)

\* C28 as stated: a row the status stage marks isCritical is evaluated by
\* the SLA stage against 4 hours, and a row marked isHighImpact and not
\* isCritical against 24 hours, whatever the priority text is
C28_CriticalAgreesWithSla ==
  (StageRan("status") /\ StageRan("sla")) =>
    \A r \in 1..NRows(ret.t) :
      /\ IsTrue(Get(ret.t, r, "isCritical")) => SlaRowAgrees(ret.t, r, 4)
      /\ (IsTrue(Get(ret.t, r, "isHighImpact")) /\ ~IsTrue(Get(ret.t, r, "isCritical")))
           => SlaRowAgrees(ret.t, r, 24)

\* the two stages agree on the rows whose priority is a key of the rules
C28_AgreesForKeys ==
  (StageRan("status") /\ StageRan("sla")) =>
    \A r \in 1..NRows(ret.t) :
      (HasCol(ret.t, "priority")
         /\ Get(ret.t, r, "priority") \in {Str(PR.Critical), Str(PR.High)}) =>
        /\ IsTrue(Get(ret.t, r, "isCritical")) => SlaRowAgrees(ret.t, r, 4)
        /\ (IsTrue(Get(ret.t, r, "isHighImpact"))
              /\ ~IsTrue(Get(ret.t, r, "isCritical")))
             => SlaRowAgrees(ret.t, r, 24)

\* C29 as stated: the default pipeline, with the rules of the default
\* configuration, gives every row the patternCategory that add_categorization
\* called without rules gives it
C29_OneDefaultRuleSet ==
  (StageRan("categorization") /\ call.sel = None /\ enriched = "raw") =>
    \A r \in 1..NRows(ret.t) :
      Returned1(r, "patternCategory")
        = Get(add_categorization(Outcome("", "fresh", df),
                                 BuiltinCategorizationRules).t, r, "patternCategory")

\* the two rule sets agree on the texts of the test fixture
C29_AgreeOnFixture ==
  (/\ StageRan("categorization") /\ call.sel = None
   /\ df = MakeTable(TestColumns, ExampleIncidents)) =>
    \A r \in 1..NRows(ret.t) :
      Returned1(r, "patternCategory")
        = Get(add_categorization(Outcome("", "fresh", df),
                                 BuiltinCategorizationRules).t, r, "patternCategory")

----------------------------------------------------------------------------
(* Selection and order of the stages, checked under Spec                   *)

\* the selector list of the call names the stage
Named(name) == \E i \in 1..Len(call.sel) : call.sel[i] = name

\* the stage F applied to o when the list names it and nothing was raised
NamedStep(o, name, F(_)) == IF o.err = "" /\ Named(name) THEN F(o) ELSE o

\* the stages the list names, each applied once to a copy of the caller's
\* table, in the order normalize, dates, status, categorization, durations,
\* sla, impact, temporal
NamedStagesInOrder ==
  LET s1 == NamedStep(Outcome("", "fresh", df), "normalize", normalize_columns)
      s2 == NamedStep(s1, "dates", parse_dates)
      s3 == NamedStep(s2, "status", add_status_fields)
      s4 == NamedStep(s3, "categorization",
                      LAMBDA o : add_categorization(o, config_rules))
      s5 == NamedStep(s4, "durations", LAMBDA o : calculate_durations(o, call.arg))
      s6 == NamedStep(s5, "sla", LAMBDA o : calculate_sla_breach(o, ConfigSlaRules))
      s7 == NamedStep(s6, "impact", estimate_user_impact)
  IN NamedStep(s7, "temporal", add_temporal_fields)

\* the columns a stage derives
DerivedBy(name) ==
  CASE name = "status" -> {"isActive", "isResolved", "isHighImpact", "isCritical"}
    [] name = "categorization" -> {"patternCategory"}
    [] name = "durations" -> {"resolutionTimeHrs", "resolutionTimeDays", "ageHrs", "ageDays"}
    [] name = "sla" -> {"slaBreach", "slaMarginHrs"}
    [] name = "impact" -> {"userImpactEstimate"}
    [] name = "temporal" -> {TemporalColumns[i] : i \in 1..Len(TemporalColumns)}
    [] OTHER -> {}

\* C30: for a selector list without 'all', transform_incidents ends as the
\* stages the list names end when each is applied once in the fixed order,
\* whatever the order and the repetitions in the list: it raises what they
\* raise, and returns the table they yield, each derived column at most
\* once; a stage the list does not name leaves none of its derived columns
\* in the result
C30_StageSelection ==
  (/\ call.op = "transform_incidents" /\ call.sel # None
   /\ ~Named("all") /\ ~IsEmpty(df)) =>
    /\ ret.err = NamedStagesInOrder.err
    /\ ret.err = "" =>
         /\ ret.t = NamedStagesInOrder.t
         /\ \A name \in {"status", "categorization", "durations", "sla", "impact",
                         "temporal"} :
              \A c \in DerivedBy(name) :
                /\ CountCol(ret.t, c) <= 1
                /\ ~Named(name) => ~HasCol(ret.t, c)

\* the list status, dates, normalize, status has run on a table of the test
\* fixture's columns: the status stage saw the renamed state (a row is
\* active), the dates are timestamps, and no duration has been derived
C30_Witness ==
  /\ call.op = "transform_incidents"
  /\ call.sel = <<"status", "dates", "normalize", "status">>
  /\ HasCol(df, "incident_state") /\ ~HasCol(df, "state")
  /\ ret.err = ""
  /\ \E r \in 1..NRows(ret.t) :
       /\ IsTrue(Get(ret.t, r, "isActive"))
       /\ Get(ret.t, r, "openedDate").k = "dt"
  /\ CountCol(ret.t, "isActive") = 1
  /\ ~HasCol(ret.t, "resolutionTimeHrs")

====
